---------------------------- MODULE Spec2Model ----------------------------
(***************************************************************************)
(* Model of the Signal backend (shrikha56/productivityapp):               *)
(*   - api/analyze.py: check_missing_answer, analyze_with_gpt and the     *)
(*     serverless submit-analysis handler,                                *)
(*   - server.py: the Flask submit-analysis route,                        *)
(*   - the response parsing / normalisation shared with weekly-report.py. *)
(*                                                                         *)
(* Python strings are sequences of one-character symbols; the symbols NL,  *)
(* DQ, EMDASH and BULLET stand for the characters newline, double quote,   *)
(* U+2014 and U+2022.  JSON values are tagged records [t, v].              *)
(***************************************************************************)
EXTENDS Integers, Sequences, FiniteSets, TLC

\* ------------------------------------------------------------------
\* Characters and Python string operations
\* ------------------------------------------------------------------

NL == "nl"
DQ == "dq"
EMDASH == "emdash"
BULLET == "bullet"

\* str.isspace over the characters the model uses (also regex \s and the
\* whitespace json.loads skips)
IsSpace(c) == c \in {" ", NL}

UpperLetters ==
    <<"A", "B", "C", "D", "E", "F", "G", "H", "I", "J", "K", "L", "M", "N", "O", "P", "Q",
    "R", "S", "T", "U", "V", "W", "X", "Y", "Z">>

LowerLetters ==
    <<"a", "b", "c", "d", "e", "f", "g", "h", "i", "j", "k", "l", "m", "n", "o", "p", "q",
    "r", "s", "t", "u", "v", "w", "x", "y", "z">>

LowerChar(c) ==
    IF \E i \in 1..Len(UpperLetters) : UpperLetters[i] = c
    THEN LowerLetters[CHOOSE i \in 1..Len(UpperLetters) : UpperLetters[i] = c]
    ELSE c

UpperChar(c) ==
    IF \E i \in 1..Len(LowerLetters) : LowerLetters[i] = c
    THEN UpperLetters[CHOOSE i \in 1..Len(LowerLetters) : LowerLetters[i] = c]
    ELSE c

\* str.lower / str.upper
Lower(s) == [i \in 1..Len(s) |-> LowerChar(s[i])]

Upper(s) == [i \in 1..Len(s) |-> UpperChar(s[i])]

SetMin(S) == CHOOSE x \in S : \A y \in S : x <= y

SetMax(S) == CHOOSE x \in S : \A y \in S : x >= y

\* str.strip()
Strip(s) ==
    LET idx == {i \in 1..Len(s) : ~IsSpace(s[i])}
    IN  IF idx = {} THEN <<>> ELSE SubSeq(s, SetMin(idx), SetMax(idx))

\* s[a:b] with 0 <= a, 0 <= b (Python slice, 0-based, end exclusive)
Slice(s, a, b) ==
    LET e == IF b > Len(s) THEN Len(s) ELSE b
    IN  IF a >= e THEN <<>> ELSE SubSeq(s, a + 1, e)

\* s[a:]
SliceFrom(s, a) == Slice(s, a, Len(s))

\* s[:b]
Prefix(s, b) == Slice(s, 0, b)

\* s.startswith(p)
StartsWith(s, p) == Len(s) >= Len(p) /\ SubSeq(s, 1, Len(p)) = p

\* s.endswith(p)
EndsWith(s, p) == Len(s) >= Len(p) /\ SubSeq(s, Len(s) - Len(p) + 1, Len(s)) = p

\* the 0-based positions at which p occurs in s
Occurrences(s, p) ==
    {i \in 0..(Len(s) - Len(p)) : SubSeq(s, i + 1, i + Len(p)) = p}

\* s.find(p): lowest 0-based index, or -1
Find(s, p) ==
    IF Occurrences(s, p) = {} THEN -1 ELSE SetMin(Occurrences(s, p))

\* s.rfind(p): highest 0-based index, or -1
RFind(s, p) ==
    IF Occurrences(s, p) = {} THEN -1 ELSE SetMax(Occurrences(s, p))

\* p in s
Contains(s, p) == Occurrences(s, p) # {}

\* s.split(sep)[1] for a text that starts with sep: what lies between
\* the first separator and the next one (or the end)
SplitSecond(s, sep) ==
    LET rest == SliceFrom(s, Find(s, sep) + Len(sep))
        nxt == Find(rest, sep)
    IN  IF nxt < 0 THEN rest ELSE Prefix(rest, nxt)

RECURSIVE Join(_, _)
\* sep.join(parts)
Join(parts, sep) ==
    IF Len(parts) = 0 THEN <<>>
    ELSE IF Len(parts) = 1 THEN parts[1]
    ELSE parts[1] \o sep \o Join(Tail(parts), sep)

\* the index of the first non-space character at or after i (Len(s)+1 if none)
SkipWs(s, i) ==
    LET rest == {j \in i..Len(s) : ~IsSpace(s[j])}
    IN  IF rest = {} THEN Len(s) + 1 ELSE SetMin(rest)

\* the 1-based positions at or after i where the pattern , \s* closer matches
MatchStarts(s, closer, i) ==
    {j \in i..Len(s) :
        s[j] = "," /\ SkipWs(s, j + 1) <= Len(s) /\ s[SkipWs(s, j + 1)] = closer}

RECURSIVE ReSubFrom(_, _, _)
\* from i on: copy up to the next match, put the closer for the match, go
\* on after the match
ReSubFrom(s, closer, i) ==
    IF MatchStarts(s, closer, i) = {} THEN SubSeq(s, i, Len(s))
    ELSE LET m == SetMin(MatchStarts(s, closer, i))
         IN  SubSeq(s, i, m - 1) \o <<closer>>
             \o ReSubFrom(s, closer, SkipWs(s, m + 1) + 1)

\* re.sub(r",\s*<closer>", "<closer>", s): every leftmost non-overlapping
\* match of a comma, any whitespace and the closer becomes the closer
ReSubTrailingComma(s, closer) == ReSubFrom(s, closer, 1)

\* ------------------------------------------------------------------
\* JSON values and Python's str() / repr() of them
\* ------------------------------------------------------------------

JStr(s) == [t |-> "str", v |-> s]

JNum(n) == [t |-> "num", v |-> n]

JBool(b) == [t |-> "bool", v |-> b]

JNull == [t |-> "null", v |-> 0]

JList(items) == [t |-> "list", v |-> items]

\* a dict is its items in insertion order
JDict(items) == [t |-> "dict", v |-> items]

Item(key, val) == [k |-> key, v |-> val]

IsStr(x) == x.t = "str"

IsList(x) == x.t = "list"

IsDict(x) == x.t = "dict"

\* bool(x)
Truthy(x) ==
    CASE x.t = "str" -> Len(x.v) > 0
      [] x.t = "list" -> Len(x.v) > 0
      [] x.t = "dict" -> Len(x.v) > 0
      [] x.t = "num" -> x.v # 0
      [] x.t = "bool" -> x.v
      [] OTHER -> FALSE

\* key in d
HasKey(d, key) == \E i \in 1..Len(d.v) : d.v[i].k = key

KeyIndex(d, key) == CHOOSE i \in 1..Len(d.v) : d.v[i].k = key

\* d.get(key, default)
Get(d, key, default) ==
    IF HasKey(d, key) THEN d.v[KeyIndex(d, key)].v ELSE default

\* d[key] = val: an existing key keeps its place, a new key goes last
SetItem(d, key, val) ==
    IF HasKey(d, key)
    THEN JDict([d.v EXCEPT ![KeyIndex(d, key)] = Item(key, val)])
    ELSE JDict(Append(d.v, Item(key, val)))

\* d.setdefault(key, default)
SetDefault(d, key, default) ==
    IF HasKey(d, key) THEN d ELSE SetItem(d, key, default)

Digits == <<"0", "1", "2", "3", "4", "5", "6", "7", "8", "9">>

IsDigit(c) == \E i \in 1..Len(Digits) : Digits[i] = c

DigitVal(c) == (CHOOSE i \in 1..Len(Digits) : Digits[i] = c) - 1

RECURSIVE IntToStr(_)
\* str(n) for n >= 0
IntToStr(n) ==
    IF n < 10 THEN <<Digits[n + 1]>>
    ELSE IntToStr(n \div 10) \o <<Digits[(n % 10) + 1]>>

NoneStr ==
    <<"N", "o", "n", "e">>

TrueStr ==
    <<"T", "r", "u", "e">>

FalseStr ==
    <<"F", "a", "l", "s", "e">>

RECURSIVE PyStr(_)
RECURSIVE PyRepr(_)
RECURSIVE ReprItems(_)
RECURSIVE ReprPairs(_)

ReprItems(items) ==
    [i \in 1..Len(items) |-> PyRepr(items[i])]

ReprPairs(items) ==
    [i \in 1..Len(items) |->
        PyRepr(JStr(items[i].k)) \o <<":", " ">> \o PyRepr(items[i].v)]

\* str(x)
PyStr(x) ==
    CASE x.t = "str" -> x.v
      [] x.t = "num" -> IntToStr(x.v)
      [] x.t = "bool" -> IF x.v THEN TrueStr ELSE FalseStr
      [] x.t = "null" -> NoneStr
      [] x.t = "list" -> <<"[">> \o Join(ReprItems(x.v), <<",", " ">>) \o <<"]">>
      [] x.t = "dict" -> <<"{">> \o Join(ReprPairs(x.v), <<",", " ">>) \o <<"}">>

\* repr(x): a string in single quotes, anything else as str(x)
PyRepr(x) ==
    IF x.t = "str" THEN <<"'">> \o x.v \o <<"'">> ELSE PyStr(x)

\* ------------------------------------------------------------------
\* json.loads, for JSON without escapes, signs, fractions and exponents
\* ------------------------------------------------------------------

NullLit ==
    <<"n", "u", "l", "l">>

TrueLit ==
    <<"t", "r", "u", "e">>

FalseLit ==
    <<"f", "a", "l", "s", "e">>

ParseOk(val, pos) == [ok |-> TRUE, val |-> val, pos |-> pos]

ParseFail == [ok |-> FALSE, val |-> JNull, pos |-> 0]

\* s[i:].startswith(lit), i 1-based
LitAt(s, i, lit) ==
    i + Len(lit) - 1 <= Len(s) /\ SubSeq(s, i, i + Len(lit) - 1) = lit

\* a string literal whose opening quote is at i: the characters up to the
\* next quote; a raw newline in it is a control character (strict mode)
ScanString(s, i) ==
    LET closing == {j \in (i + 1)..Len(s) : s[j] = DQ}
    IN  IF closing = {} THEN ParseFail
        ELSE LET j == SetMin(closing)
                 body == SubSeq(s, i + 1, j - 1)
             IN  IF \E n \in 1..Len(body) : body[n] = NL
                 THEN ParseFail
                 ELSE ParseOk(body, j + 1)

\* the end (exclusive) of the run of digits that starts at i
DigitsEnd(s, i) ==
    LET stop == {j \in i..Len(s) : ~IsDigit(s[j])}
    IN  IF stop = {} THEN Len(s) + 1 ELSE SetMin(stop)

RECURSIVE DigitsToInt(_)
DigitsToInt(ds) ==
    IF Len(ds) = 0 THEN 0
    ELSE 10 * DigitsToInt(SubSeq(ds, 1, Len(ds) - 1)) + DigitVal(ds[Len(ds)])

\* a number at i: 0, or a digit run without a leading zero
ScanNumber(s, i) ==
    LET e == IF s[i] = "0" THEN i + 1 ELSE DigitsEnd(s, i)
    IN  ParseOk(JNum(DigitsToInt(SubSeq(s, i, e - 1))), e)

RECURSIVE ParseValue(_, _)
RECURSIVE ParseMembers(_, _, _)
RECURSIVE ParseElements(_, _, _)

\* the members of an object from i (a key is expected there), acc the dict so far
ParseMembers(s, i, acc) ==
    IF i > Len(s) \/ s[i] # DQ THEN ParseFail
    ELSE LET key == ScanString(s, i)
         IN  IF ~key.ok THEN ParseFail
             ELSE LET c == SkipWs(s, key.pos)
                  IN  IF c > Len(s) \/ s[c] # ":" THEN ParseFail
                      ELSE LET val == ParseValue(s, SkipWs(s, c + 1))
                           IN  IF ~val.ok THEN ParseFail
                               ELSE LET d == SetItem(acc, key.val, val.val)
                                        n == SkipWs(s, val.pos)
                                    IN  IF n > Len(s) THEN ParseFail
                                        ELSE IF s[n] = "}" THEN ParseOk(d, n + 1)
                                        ELSE IF s[n] = ","
                                             THEN ParseMembers(s, SkipWs(s, n + 1), d)
                                        ELSE ParseFail

\* the elements of an array from i (a value is expected there)
ParseElements(s, i, acc) ==
    LET val == ParseValue(s, i)
    IN  IF ~val.ok THEN ParseFail
        ELSE LET items == Append(acc, val.val)
                 n == SkipWs(s, val.pos)
             IN  IF n > Len(s) THEN ParseFail
                 ELSE IF s[n] = "]" THEN ParseOk(JList(items), n + 1)
                 ELSE IF s[n] = ","
                      THEN ParseElements(s, SkipWs(s, n + 1), items)
                 ELSE ParseFail

\* one JSON value whose first character is at i
ParseValue(s, i) ==
    IF i > Len(s) THEN ParseFail
    ELSE IF s[i] = "{"
         THEN LET j == SkipWs(s, i + 1)
              IN  IF j <= Len(s) /\ s[j] = "}" THEN ParseOk(JDict(<<>>), j + 1)
                  ELSE ParseMembers(s, j, JDict(<<>>))
    ELSE IF s[i] = "["
         THEN LET j == SkipWs(s, i + 1)
              IN  IF j <= Len(s) /\ s[j] = "]" THEN ParseOk(JList(<<>>), j + 1)
                  ELSE ParseElements(s, j, <<>>)
    ELSE IF s[i] = DQ
         THEN LET str == ScanString(s, i)
              IN  IF str.ok THEN ParseOk(JStr(str.val), str.pos) ELSE ParseFail
    ELSE IF IsDigit(s[i]) THEN ScanNumber(s, i)
    ELSE IF LitAt(s, i, NullLit) THEN ParseOk(JNull, i + Len(NullLit))
    ELSE IF LitAt(s, i, TrueLit) THEN ParseOk(JBool(TRUE), i + Len(TrueLit))
    ELSE IF LitAt(s, i, FalseLit) THEN ParseOk(JBool(FALSE), i + Len(FalseLit))
    ELSE ParseFail

\* json.loads(s): one value, whitespace around it, nothing after it;
\* ok = FALSE stands for json.JSONDecodeError
JsonLoads(s) ==
    LET val == ParseValue(s, SkipWs(s, 1))
    IN  IF val.ok /\ SkipWs(s, val.pos) > Len(s)
        THEN ParseOk(val.val, val.pos)
        ELSE ParseFail

\* ------------------------------------------------------------------
\* api/analyze.py: analyze_with_gpt
\* ------------------------------------------------------------------

BT == "bt"

Fence ==
    <<BT, BT, BT>>

JsonTag ==
    <<"j", "s", "o", "n">>

K_reflection_summary ==
    <<"r", "e", "f", "l", "e", "c", "t", "i", "o", "n", "_", "s", "u", "m", "m", "a", "r",
    "y">>

K_likely_drivers ==
    <<"l", "i", "k", "e", "l", "y", "_", "d", "r", "i", "v", "e", "r", "s">>

K_predicted_impact ==
    <<"p", "r", "e", "d", "i", "c", "t", "e", "d", "_", "i", "m", "p", "a", "c", "t">>

K_experiment_for_tomorrow ==
    <<"e", "x", "p", "e", "r", "i", "m", "e", "n", "t", "_", "f", "o", "r", "_", "t", "o",
    "m", "o", "r", "r", "o", "w">>

K_core_bottleneck ==
    <<"c", "o", "r", "e", "_", "b", "o", "t", "t", "l", "e", "n", "e", "c", "k">>

K_micro_interventions ==
    <<"m", "i", "c", "r", "o", "_", "i", "n", "t", "e", "r", "v", "e", "n", "t", "i", "o",
    "n", "s">>

K_error ==
    <<"_", "e", "r", "r", "o", "r">>

AnalysisPending ==
    <<"A", "n", "a", "l", "y", "s", "i", "s", " ", "p", "e", "n", "d", "i", "n", "g">>

NoReflectionProvided ==
    <<"N", "o", " ", "r", "e", "f", "l", "e", "c", "t", "i", "o", "n", " ", "p", "r", "o",
    "v", "i", "d", "e", "d", ".">>

CoreBottleneckPrefix ==
    <<"C", "o", "r", "e", " ", "b", "o", "t", "t", "l", "e", "n", "e", "c", "k", ":", " ">>

MicroHeader ==
    <<NL, NL, "M", "i", "c", "r", "o", "-", "i", "n", "t", "e", "r", "v", "e", "n", "t",
    "i", "o", "n", "s", ":", NL>>

DriverSep ==
    <<" ", EMDASH, " ">>

KeyNotSetMsg ==
    <<"O", "P", "E", "N", "A", "I", "_", "A", "P", "I", "_", "K", "E", "Y", " ", "n", "o",
    "t", " ", "s", "e", "t", " ", "i", "n", " ", ".", "e", "n", "v">>

EmptyResponseMsg ==
    <<"E", "m", "p", "t", "y", " ", "r", "e", "s", "p", "o", "n", "s", "e", " ", "f", "r",
    "o", "m", " ", "G", "P", "T">>

Ellipsis ==
    <<".", ".", ".">>

Dash ==
    <<EMDASH>>

\* the ["Analysis pending"] sentinel
SentinelDrivers == JList(<<JStr(AnalysisPending)>>)

\* transcript[:200]
FallbackSummaryLen == 200

\* micro[:3]
MaxMicro == 3

\* An exception: its type name and its message.  The message of an
\* exception raised by a library is an opaque symbol.
Exc(type, msg) == [type |-> type, msg |-> msg]

Raise(exc) == [ok |-> FALSE, val |-> JNull, exc |-> exc]

Return(val) == [ok |-> TRUE, val |-> val, exc |-> Exc("", <<>>)]

\* f"{type(e).__name__}: {str(e)}"
ErrMsg(exc) == <<exc.type>> \o <<":", " ">> \o exc.msg

\* lines 105-120: the reply's text to the deserialised value, FULL state
ParseFull(content) ==
    LET text0 == Strip(content)
        text1 == IF StartsWith(text0, Fence)
                 THEN LET inner == SplitSecond(text0, Fence)
                      IN  Strip(IF StartsWith(Lower(inner), JsonTag)
                                THEN SliceFrom(inner, 4)
                                ELSE inner)
                 ELSE text0
        start == Find(text1, <<"{">>)
        end == RFind(text1, <<"}">>) + 1
        text2 == IF start >= 0 /\ end > start THEN Slice(text1, start, end) ELSE text1
        text3 == ReSubTrailingComma(text2, "}")
        text4 == ReSubTrailingComma(text3, "]")
        data == JsonLoads(text4)
    IN  IF Len(text0) = 0 THEN Raise(Exc("ValueError", EmptyResponseMsg))
        ELSE IF ~data.ok THEN Raise(Exc("JSONDecodeError", <<"json-error">>))
        ELSE Return(data.val)

\* f"{k}: {v}" for the items of a dict, joined by sep
RenderDict(d, sep) ==
    Join([i \in 1..Len(d.v) |-> d.v[i].k \o <<":", " ">> \o PyStr(d.v[i].v)], sep)

\* lines 122-125
EnsureRequiredKeys(data) ==
    SetDefault(SetDefault(SetDefault(SetDefault(data,
        K_reflection_summary, JStr(<<>>)),
        K_likely_drivers, JList(<<>>)),
        K_predicted_impact, JStr(<<>>)),
        K_experiment_for_tomorrow, JStr(<<>>))

StrFields ==
    <<K_reflection_summary, K_predicted_impact, K_experiment_for_tomorrow,
      K_core_bottleneck>>

RECURSIVE RenderStrFields(_, _)
\* lines 128-131: a string field that arrived as a dict becomes "k: v" lines
RenderStrFields(data, i) ==
    IF i > Len(StrFields) THEN data
    ELSE LET f == StrFields[i]
             val == Get(data, f, JNull)
         IN  RenderStrFields(
                 IF IsDict(val) THEN SetItem(data, f, JStr(RenderDict(val, <<NL>>)))
                 ELSE data,
                 i + 1)

\* lines 136-141: one item of likely_drivers
RenderDriver(d) ==
    IF IsDict(d) THEN JStr(RenderDict(d, DriverSep)) ELSE JStr(PyStr(d))

\* lines 134-142
NormalizeDrivers(data) ==
    LET drivers == Get(data, K_likely_drivers, JList(<<>>))
    IN  IF IsList(drivers)
        THEN SetItem(data, K_likely_drivers,
                     JList([i \in 1..Len(drivers.v) |-> RenderDriver(drivers.v[i])]))
        ELSE data

\* the merge without the summary of the response
MergeCoreOnly(data) ==
    LET core == Get(data, K_core_bottleneck, JStr(<<>>))
    IN  IF Truthy(core)
        THEN SetItem(data, K_reflection_summary, JStr(CoreBottleneckPrefix \o PyStr(core)))
        ELSE data

\* lines 145-148
MergeCoreBottleneck(data) ==
    LET core == Get(data, K_core_bottleneck, JStr(<<>>))
        summary == Get(data, K_reflection_summary, JStr(<<>>))
    IN  IF Truthy(core)
        THEN SetItem(data, K_reflection_summary,
                     JStr(CoreBottleneckPrefix \o PyStr(core) \o <<NL, NL>> \o PyStr(summary)))
        ELSE data

\* lines 151-157: micro[:3] raises on a number, a bool or a dict, and
\* exp += <str> raises unless exp is a str or a list (a list is extended
\* by the characters of the string)
AppendMicro(data) ==
    LET got == Get(data, K_micro_interventions, JNull)
        micro0 == IF Truthy(got) THEN got ELSE JList(<<>>)
        micro == IF IsList(micro0)
                 THEN JList([i \in 1..Len(micro0.v) |-> JStr(PyStr(micro0.v[i]))])
                 ELSE micro0
        exp == Get(data, K_experiment_for_tomorrow, JStr(<<>>))
        shown == IF IsList(micro) THEN [i \in 1..Len(Prefix(micro.v, MaxMicro)) |-> micro.v[i].v]
                 ELSE [i \in 1..Len(Prefix(micro.v, MaxMicro)) |-> <<micro.v[i]>>]
        extra == MicroHeader \o Join([i \in 1..Len(shown) |-> <<BULLET, " ">> \o shown[i]], <<NL>>)
    IN  IF ~Truthy(micro) THEN Return(data)
        ELSE IF ~(IsList(micro) \/ IsStr(micro))
             THEN Raise(Exc("TypeError", <<"not-subscriptable">>))
        ELSE IF IsStr(exp)
             THEN Return(SetItem(data, K_experiment_for_tomorrow, JStr(exp.v \o extra)))
        ELSE IF IsList(exp)
             THEN Return(SetItem(data, K_experiment_for_tomorrow,
                     JList(exp.v \o [i \in 1..Len(extra) |-> JStr(<<extra[i]>>)])))
        ELSE Raise(Exc("TypeError", <<"unsupported-operand">>))

\* lines 121-158: the normalisation of the FULL state
NormalizeFull(data) ==
    IF ~IsDict(data) THEN Raise(Exc("AttributeError", <<"no-attribute-setdefault">>))
    ELSE AppendMicro(MergeCoreBottleneck(NormalizeDrivers(
             RenderStrFields(EnsureRequiredKeys(data), 1))))

\* lines 172-177: the reply's text to the deserialised value, SIMPLIFIED state
ParseSimplified(content) ==
    LET text0 == Strip(content)
        start == Find(text0, <<"{">>)
        end == RFind(text0, <<"}">>) + 1
        text1 == IF start >= 0 /\ end > start THEN Slice(text0, start, end) ELSE text0
        text2 == ReSubTrailingComma(ReSubTrailingComma(text1, "]"), "}")
        data == JsonLoads(text2)
    IN  IF ~data.ok THEN Raise(Exc("JSONDecodeError", <<"json-error">>))
        ELSE Return(data.val)

\* lines 178-185: the normalisation of the SIMPLIFIED state
NormalizeSimplified(data) ==
    IF ~IsDict(data) THEN Raise(Exc("AttributeError", <<"no-attribute-setdefault">>))
    ELSE LET d == EnsureRequiredKeys(data)
             core == Get(d, K_core_bottleneck, JStr(<<>>))
         IN  Return(IF Truthy(core)
                    THEN SetItem(d, K_reflection_summary,
                             JStr(CoreBottleneckPrefix \o PyStr(core) \o <<NL, NL>>
                                  \o PyStr(Get(d, K_reflection_summary, JStr(<<>>)))))
                    ELSE d)

\* A reply of the model: the completion call raises, or returns a text
\* (a null content counts as the empty text: `content or ""`)
ReplyRaise(exc) == [called |-> TRUE, raises |-> TRUE, exc |-> exc, content |-> <<>>]

ReplyText(content) ==
    [called |-> TRUE, raises |-> FALSE, exc |-> Exc("", <<>>), content |-> content]

\* lines 99-158: call, parse, normalise
FullAttempt(reply) ==
    IF reply.raises THEN Raise(reply.exc)
    ELSE LET parsed == ParseFull(reply.content)
         IN  IF parsed.ok THEN NormalizeFull(parsed.val) ELSE parsed

\* lines 171-185
SimplifiedAttempt(reply) ==
    IF reply.raises THEN Raise(reply.exc)
    ELSE LET parsed == ParseSimplified(reply.content)
         IN  IF parsed.ok THEN NormalizeSimplified(parsed.val) ELSE parsed

\* lines 63-69: the result when no key is configured
NoKeyResult(transcript) ==
    JDict(<<
        Item(K_reflection_summary,
             JStr(Prefix(transcript, FallbackSummaryLen)
                  \o (IF Len(transcript) > FallbackSummaryLen THEN Ellipsis ELSE <<>>))),
        Item(K_likely_drivers, SentinelDrivers),
        Item(K_predicted_impact, JStr(Dash)),
        Item(K_experiment_for_tomorrow, JStr(Dash)),
        Item(K_error, JStr(KeyNotSetMsg)) >>)

\* lines 188-194: the result after both attempts failed
FallbackResult(transcript, err_msg) ==
    JDict(<<
        Item(K_reflection_summary,
             JStr(IF Len(Prefix(transcript, FallbackSummaryLen)) > 0
                  THEN Prefix(transcript, FallbackSummaryLen)
                  ELSE NoReflectionProvided)),
        Item(K_likely_drivers, SentinelDrivers),
        Item(K_predicted_impact, JStr(Dash)),
        Item(K_experiment_for_tomorrow, JStr(Dash)),
        Item(K_error, JStr(err_msg)) >>)

\* line 61: (api_key or OPENAI_KEY or "").strip()
EffectiveKey(api_key, env_key) ==
    Strip(IF Len(api_key) > 0 THEN api_key ELSE env_key)

\* a handler that caught only the errors of the parse steps
CatchesParseErrors(exc) == exc.type \in {"JSONDecodeError", "ValueError"}

\* lines 159 and 186: `except Exception` catches every exception a step raises
Catches(exc) == TRUE

\* ------------------------------------------------------------------
\* The replies the model may give: JSON documents written out as text,
\* wrapped the ways a chat model wraps them, and texts that are no JSON
\* ------------------------------------------------------------------

RECURSIVE Dumps(_, _)
\* the JSON text of x; with tc, a trailing comma precedes every closer of
\* a non-empty object or array
Dumps(x, tc) ==
    CASE x.t = "str" -> <<DQ>> \o x.v \o <<DQ>>
      [] x.t = "num" -> IntToStr(x.v)
      [] x.t = "bool" -> IF x.v THEN TrueLit ELSE FalseLit
      [] x.t = "null" -> NullLit
      [] x.t = "list" ->
            <<"[">> \o Join([i \in 1..Len(x.v) |-> Dumps(x.v[i], tc)], <<",">>)
            \o (IF tc /\ Len(x.v) > 0 THEN <<",">> ELSE <<>>) \o <<"]">>
      [] x.t = "dict" ->
            <<"{">> \o Join([i \in 1..Len(x.v) |->
                                <<DQ>> \o x.v[i].k \o <<DQ, ":">> \o Dumps(x.v[i].v, tc)],
                            <<",">>)
            \o (IF tc /\ Len(x.v) > 0 THEN <<",", NL>> ELSE <<>>) \o <<"}">>

\* ```json <newline> text <newline> ```
Fenced(text) == Fence \o JsonTag \o <<NL>> \o text \o <<NL>> \o Fence

\* prose before and after the document
InProse(text) == <<"H", "e", "r", "e", ":", " ">> \o text \o <<" ", "o", "k", NL>>

\* Example scenario 2 of the specification
ObjScenario2 ==
    JDict(<<Item(K_reflection_summary, JStr(<<"o", "k">>)),
            Item(K_likely_drivers, JList(<<JDict(<<Item(<<"a">>, JStr(<<"b">>))>>)>>)),
            Item(K_predicted_impact, JStr(<<"x">>)),
            Item(K_experiment_for_tomorrow, JStr(<<"y">>))>>)

\* a core bottleneck and micro-interventions, one of them not a string
ObjRich ==
    JDict(<<Item(K_reflection_summary, JStr(<<"s">>)),
            Item(K_core_bottleneck, JStr(<<"c">>)),
            Item(K_likely_drivers, JList(<<JStr(<<"d">>), JNum(7)>>)),
            Item(K_micro_interventions,
                 JList(<<JStr(<<"m">>), JNum(1), JNull, JStr(<<"n">>)>>))>>)

\* the model echoes the sentinel
ObjEcho ==
    JDict(<<Item(K_likely_drivers, JList(<<JStr(AnalysisPending)>>))>>)

\* the model supplies an _error key of its own
ObjOwnError ==
    JDict(<<Item(K_reflection_summary, JStr(<<"s">>)),
            Item(K_error, JStr(<<"e">>))>>)

\* null fields, drivers that are no list
ObjNulls ==
    JDict(<<Item(K_reflection_summary, JNull),
            Item(K_likely_drivers, JStr(<<"a", "b">>))>>)

\* micro-interventions to append to an experiment that is null
ObjNullExperiment ==
    JDict(<<Item(K_experiment_for_tomorrow, JNull),
            Item(K_micro_interventions, JList(<<JStr(<<"m">>)>>))>>)

\* micro-interventions that are a number
ObjNumMicro ==
    JDict(<<Item(K_micro_interventions, JNum(1))>>)

\* string fields that arrive as mappings, an experiment that is a list,
\* micro-interventions that are a string
ObjMappings ==
    JDict(<<Item(K_predicted_impact,
                 JDict(<<Item(<<"k">>, JStr(<<"v">>)), Item(<<"n">>, JBool(TRUE))>>)),
            Item(K_core_bottleneck, JDict(<<Item(<<"k">>, JStr(<<"v">>))>>)),
            Item(K_experiment_for_tomorrow, JList(<<JStr(<<"e">>)>>)),
            Item(K_micro_interventions, JStr(<<"x", "y">>))>>)

\* a core bottleneck that is the empty string
ObjEmptyCore ==
    JDict(<<Item(K_reflection_summary, JStr(<<"s">>)),
            Item(K_core_bottleneck, JStr(<<>>))>>)

SampleObjects ==
    { JDict(<<>>), ObjScenario2, ObjRich, ObjEcho, ObjOwnError, ObjNulls,
      ObjNullExperiment, ObjNumMicro, ObjMappings, ObjEmptyCore }

\* texts that json.loads rejects or that hold no object
JunkTexts ==
    { <<>>, <<" ", NL>>, <<"S", "o", "r", "r", "y">>, <<"[", "1", "]">>,
      <<DQ, "a", DQ>>, <<"{", DQ, "a", DQ, ":">> }

ReplyTexts ==
    {Dumps(o, FALSE) : o \in SampleObjects}
    \cup {Fenced(Dumps(o, TRUE)) : o \in {ObjScenario2, ObjRich, ObjNullExperiment}}
    \cup {InProse(Dumps(o, TRUE)) : o \in {ObjScenario2, ObjEcho}}
    \cup {Fenced(Dumps(ObjScenario2, FALSE)) \o <<" ", "{", "}">>}
    \cup JunkTexts

\* creating the client raises: no completion call is made
ClientError(exc) ==
    [called |-> FALSE, raises |-> TRUE, exc |-> exc, content |-> <<>>]

Replies ==
    {ReplyText(c) : c \in ReplyTexts}
    \cup {ReplyRaise(Exc("APIConnectionError", <<"connection-error">>)),
          ClientError(Exc("ImportError", <<"no-module-openai">>))}

NoReply == ReplyText(<<"-">>)

MaxOver == 1

Filler(n) == [i \in 1..n |-> "a"]

Transcripts ==
    {<<>>, <<"f", "i", "n", "e">>}
    \cup {Filler(n) : n \in FallbackSummaryLen..(FallbackSummaryLen + MaxOver)}

ApiKeys == {<<>>, <<"s", "k">>}

EnvKeys == {<<>>, <<" ">>}

\* ------------------------------------------------------------------
\* api/analyze.py: check_missing_answer
\* ------------------------------------------------------------------

GateQuestion ==
    <<"H", "o", "w", " ", "w", "a", "s", " ", "y", "o", "u", "r", " ", "e", "n", "e", "r",
    "g", "y", " ", "a", "n", "d", " ", "f", "o", "c", "u", "s", " ", "t", "o", "d", "a",
    "y", "?">>

NoneUpper ==
    <<"N", "O", "N", "E">>

\* line 30
EnergyKeywords ==
    { <<"e", "n", "e", "r", "g", "y">>,
      <<"t", "i", "r", "e", "d">>,
      <<"d", "r", "a", "i", "n", "e", "d">>,
      <<"f", "o", "c", "u", "s", "e", "d">>,
      <<"f", "o", "c", "u", "s">>,
      <<"p", "r", "o", "d", "u", "c", "t", "i", "v", "e">>,
      <<"w", "o", "r", "k">>,
      <<"d", "e", "e", "p", " ", "w", "o", "r", "k">> }

\* line 25: len(t) < 10
MinGateLen == 10

\* line 28: len(t) < 80
ShortLen == 80

\* line 40: transcript[:800]
GatePromptLen == 800

\* Optional[str]
NoneVal == [some |-> FALSE, val |-> <<>>]

Some(str) == [some |-> TRUE, val |-> str]

\* line 30: any(w in t_lower for w in [...])
HasEnergy(t_lower) == \E w \in EnergyKeywords : Contains(t_lower, w)

\* a gate without the minimum length of line 25
GateEarlyNoMinimum(transcript, key) ==
    LET t == Strip(transcript)
    IN  IF Len(t) = 0
        THEN [decided |-> TRUE, result |-> NoneVal]
        ELSE IF Len(t) < ShortLen /\ ~HasEnergy(Lower(t))
        THEN [decided |-> TRUE, result |-> Some(GateQuestion)]
        ELSE IF Len(key) = 0
        THEN [decided |-> TRUE, result |-> NoneVal]
        ELSE [decided |-> FALSE, result |-> NoneVal]

\* a gate that asked its fixed question only when no model is configured
GateEarlyKeyFirst(transcript, key) ==
    LET t == Strip(transcript)
    IN  IF Len(t) = 0 \/ Len(t) < MinGateLen
        THEN [decided |-> TRUE, result |-> NoneVal]
        ELSE IF Len(key) > 0
        THEN [decided |-> FALSE, result |-> NoneVal]
        ELSE IF Len(t) < ShortLen /\ ~HasEnergy(Lower(t))
        THEN [decided |-> TRUE, result |-> Some(GateQuestion)]
        ELSE [decided |-> TRUE, result |-> NoneVal]

\* lines 24-34: what check_missing_answer decides before any model call;
\* decided = FALSE: it goes on to the model call
GateEarly(transcript, key) ==
    LET t == Strip(transcript)
    IN  IF Len(t) = 0 \/ Len(t) < MinGateLen
        THEN [decided |-> TRUE, result |-> NoneVal]
        ELSE IF Len(t) < ShortLen /\ ~HasEnergy(Lower(t))
        THEN [decided |-> TRUE, result |-> Some(GateQuestion)]
        ELSE IF Len(key) = 0
        THEN [decided |-> TRUE, result |-> NoneVal]
        ELSE [decided |-> FALSE, result |-> NoneVal]

\* lines 38-47: the prompt carries the anchors and transcript[:800]
GatePrompt(transcript, anchors) ==
    [anchors |-> anchors, reflection |-> Prefix(transcript, GatePromptLen)]

\* a handler that caught only the errors of the model's API
GateCatchesApiErrors(exc) == exc.type = "APIConnectionError"

\* line 55: `except Exception` catches whatever lines 36-54 raise
GateCatches(exc) == TRUE

\* a gate that took any reply that is not NONE as the clarification
GateFromReplyAnyText(reply) ==
    LET full == Strip(reply.content)
    IN  IF reply.raises THEN NoneVal
        ELSE IF Len(full) = 0 \/ Upper(full) = NoneUpper THEN NoneVal
        ELSE Some(full)

\* lines 48-56: the result for a reply of the model
GateFromReply(reply) ==
    LET full == Strip(reply.content)
    IN  IF reply.raises THEN NoneVal
        ELSE IF Len(full) = 0 \/ Upper(full) = NoneUpper THEN NoneVal
        ELSE IF EndsWith(full, <<"?">>) THEN Some(full)
        ELSE NoneVal

T_fine ==
    <<"f", "i", "n", "e">>

T_slept_bad ==
    <<"s", "l", "e", "p", "t", " ", "b", "a", "d">>

T_padded ==
    <<" ", " ", "s", "l", "e", "p", "t", " ", "o", "k", " ", " ", NL>>

T_slept_badly ==
    <<"s", "l", "e", "p", "t", " ", "b", "a", "d", "l", "y">>

T_tired ==
    <<"I", " ", "w", "a", "s", " ", "T", "I", "R", "E", "D", ".">>

T_why ==
    <<"W", "h", "y", "?", " ">>

T_none_lower ==
    <<"n", "o", "n", "e">>

T_focus_q ==
    <<" ", "H", "o", "w", " ", "w", "a", "s", " ", "f", "o", "c", "u", "s", "?", NL>>

T_more ==
    <<"T", "e", "l", "l", " ", "m", "e", " ", "m", "o", "r", "e">>

\* 14 characters, 11 of them between the surrounding blanks
T_padded_badly == <<" ">> \o T_slept_badly \o <<" ", NL>>

GateTranscripts ==
    { <<>>, <<" ", NL>>, T_fine, T_slept_bad, T_padded, T_slept_badly, T_tired,
      T_tired \o Filler(ShortLen), T_padded_badly }
    \cup {Filler(n) : n \in (MinGateLen - 1)..MinGateLen}
    \cup {Filler(n) : n \in (ShortLen - 1)..(ShortLen + MaxOver)}

GateKeys == {<<>>, <<"s", "k">>}

\* sleep_hours, sleep_quality, energy, deep_work
GateAnchors == {<<0, 1, 1, 0>>, <<7, 3, 3, 1>>}

GateReplies ==
    {ReplyText(c) : c \in {<<>>, NoneUpper, T_none_lower, T_why, T_focus_q, T_more}}
    \cup {ReplyRaise(Exc("APIConnectionError", <<"connection-error">>)),
          ClientError(Exc("ImportError", <<"no-module-openai">>))}

\* ------------------------------------------------------------------
\* Documents for the parser's round trip, and the ways they are wrapped
\* ------------------------------------------------------------------

DocNested ==
    JDict(<<Item(<<"a">>, JList(<<JNum(1), JDict(<<Item(<<"k">>, JNull)>>)>>)),
            Item(<<"b">>, JBool(TRUE))>>)

\* string values that hold , } ] { and a fence
DocCommaBrace == JDict(<<Item(<<"a">>, JStr(<<",", "}">>))>>)

DocCommaBracket == JDict(<<Item(<<"a">>, JStr(<<"x", ",", " ", "]">>))>>)

DocOpenBrace == JDict(<<Item(<<"a">>, JStr(<<"{">>))>>)

DocCloseBrace == JDict(<<Item(<<"a">>, JStr(<<"}", "]">>))>>)

DocFence == JDict(<<Item(<<"a">>, JStr(Fence))>>)

\* the documents whose strings hold none of those characters
PlainDocs ==
    {JDict(<<>>), JDict(<<Item(<<"a">>, JStr(<<"b">>))>>), ObjScenario2, DocNested}

RoundTripDocs ==
    PlainDocs \cup {DocCommaBrace, DocCommaBracket, DocOpenBrace, DocCloseBrace, DocFence}

Wrappings == {"clean", "spaces", "prose", "fenced", "fenced_json", "prose_fenced"}

Wrap(w, text) ==
    CASE w = "clean" -> text
      [] w = "spaces" -> <<" ", NL>> \o text \o <<NL, " ">>
      [] w = "prose" -> InProse(text)
      [] w = "fenced" -> Fence \o <<NL>> \o text \o <<NL>> \o Fence
      [] w = "fenced_json" -> Fenced(text)
      [] w = "prose_fenced" -> InProse(Fenced(text))

\* ------------------------------------------------------------------
\* api/security.py, and the helpers of the submit-analysis endpoints
\* ------------------------------------------------------------------

\* a control character of [\x00-\x08\x0b\x0c\x0e-\x1f]
CTL == "ctl"

\* the head of a Fernet token
ENC == "enc"

\* sanitize_text(..., max_length=5000)
MaxTranscriptLen == 5000

\* server.py: RATE_LIMIT_MAX
RATE_LIMIT_MAX == 30

\* sanitize_text
SanitizeText(text, max_length) ==
    IF Len(text) = 0 THEN <<>>
    ELSE Strip(SelectSeq(Prefix(text, max_length), LAMBDA c : c # CTL))

\* encrypt: fkey says whether ENCRYPTION_KEY is configured
Encrypt(text, fkey) ==
    IF Len(text) = 0 THEN text
    ELSE IF ~fkey THEN text
    ELSE <<ENC>> \o text

\* decrypt: a text that is no token comes back as it is
Decrypt(text, fkey) ==
    IF Len(text) = 0 THEN text
    ELSE IF ~fkey THEN text
    ELSE IF text[1] = ENC THEN Tail(text) ELSE text

\* encrypt(result.get("reflection_summary", "")) raises on a truthy value
\* that is no string when a key is configured
EncryptRaises(v, fkey) == Truthy(v) /\ fkey /\ ~IsStr(v)

EncryptValue(v, fkey) ==
    IF Truthy(v) /\ fkey /\ IsStr(v) THEN JStr(Encrypt(v.v, fkey)) ELSE v

\* server.py: _pending_analysis_result
PendingAnalysisResult ==
    JDict(<<
        Item(K_reflection_summary, JStr(<<>>)),
        Item(K_likely_drivers, SentinelDrivers),
        Item(K_predicted_impact, JStr(Dash)),
        Item(K_experiment_for_tomorrow, JStr(Dash)) >>)

\* an endpoint that did not look for the sentinel
SentinelIgnored(result) == FALSE

\* result.get("likely_drivers") == ["Analysis pending"]
IsSentinel(result) == Get(result, K_likely_drivers, JNull) = SentinelDrivers

\* the four analysis columns of a row
AnalysisColumns(result, fkey) ==
    [reflection_summary |-> EncryptValue(Get(result, K_reflection_summary, JStr(<<>>)), fkey),
     likely_drivers |-> Get(result, K_likely_drivers, JList(<<>>)),
     predicted_impact |-> Get(result, K_predicted_impact, JStr(<<>>)),
     experiment_for_tomorrow |-> Get(result, K_experiment_for_tomorrow, JStr(<<>>))]

\* a row of the entries table; entry_number 0 stands for a row without
\* the entry_number and is_follow_up columns
EntryRow(id, entry_number, is_follow_up, anchors, transcript, columns) ==
    [id |-> id, entry_number |-> entry_number, is_follow_up |-> is_follow_up,
     anchors |-> anchors, transcript |-> transcript, analysis |-> columns]

\* the position of the row with the least (greatest) entry_number
RECURSIVE OrderByEntryNumber(_, _)
OrderByEntryNumber(rows, desc) ==
    IF Len(rows) = 0 THEN <<>>
    ELSE LET first == CHOOSE i \in 1..Len(rows) :
                        \A j \in 1..Len(rows) :
                            \/ (IF desc THEN rows[i].entry_number > rows[j].entry_number
                                        ELSE rows[i].entry_number < rows[j].entry_number)
                            \/ (rows[i].entry_number = rows[j].entry_number /\ i <= j)
             rest == [k \in 1..(Len(rows) - 1) |-> IF k < first THEN rows[k] ELSE rows[k + 1]]
         IN  <<rows[first]>> \o OrderByEntryNumber(rest, desc)

\* first.get(name) or value, for the four anchors
FirstOr(first, anchors) ==
    [i \in 1..4 |-> IF first.anchors[i] # 0 THEN first.anchors[i] ELSE anchors[i]]

\* f"Reflection {n}:"
ReflectionLabel(n) ==
    <<"R", "e", "f", "l", "e", "c", "t", "i", "o", "n", " ">> \o IntToStr(n) \o <<":">>

\* server.py lines 305-310: the labelled, stripped transcripts of the stored entries
RECURSIVE ExistingParts(_, _, _)
ExistingParts(existing, i, fkey) ==
    IF i > Len(existing) THEN <<>>
    ELSE LET raw == Decrypt(existing[i].transcript, fkey)
             label == IF Len(existing) > 1 THEN ReflectionLabel(i) ELSE <<>>
         IN  (IF Len(Strip(raw)) > 0
              THEN <<Strip(label \o <<" ">> \o Strip(raw))>>
              ELSE <<>>)
             \o ExistingParts(existing, i + 1, fkey)

\* server.py lines 305-313
CombinedTranscript(existing, transcript, fkey) ==
    LET parts == ExistingParts(existing, 1, fkey)
                 \o (IF Len(Strip(transcript)) > 0
                     THEN <<ReflectionLabel(Len(existing) + 1) \o <<" ">> \o Strip(transcript)>>
                     ELSE <<>>)
    IN  IF Len(parts) > 0 THEN Join(parts, <<NL, NL>>) ELSE transcript

\* an HTTP answer
Response(status, body) == [status |-> status, body |-> body]

NoResponse == Response(0, "")

\* a write on the entries table
InsertOf(row) == [op |-> "insert", id |-> row.id]

UpdateOf(id) == [op |-> "update", id |-> id]

\* the id the store gives to a new row
NextId(entries) == Len(entries) + 1

\* update(columns).eq("id", id)
UpdateAnalysis(entries, id, columns) ==
    [i \in 1..Len(entries) |->
        IF entries[i].id = id THEN [entries[i] EXCEPT !.analysis = columns] ELSE entries[i]]

\* the first k rows of existing get the columns
RECURSIVE UpdateFirst(_, _, _, _)
UpdateFirst(entries, existing, k, columns) ==
    IF k = 0 THEN entries
    ELSE UpdateAnalysis(UpdateFirst(entries, existing, k - 1, columns), existing[k].id, columns)

\* server.py lines 364-365: every column of the row but user_id and date
OverwriteRow(entries, id, row) ==
    [i \in 1..Len(entries) |-> IF entries[i].id = id THEN [row EXCEPT !.id = id] ELSE entries[i]]

\* ------------------------------------------------------------------
\* Requests, environments and stores for the submit-analysis endpoints
\* ------------------------------------------------------------------

T_ctl ==
    <<" ", "s", "l", CTL, "e", "p", "t", " ", "b", "a", "d", "l", "y", NL>>

StoredAnchors == <<6, 2, 4, 0>>

RequestAnchors == <<7, 3, 3, 1>>

\* the day's first entry, stored by an earlier submission that planned more reflections
FirstEntry(multi, fkey) ==
    EntryRow(1, IF multi THEN 1 ELSE 0, FALSE, StoredAnchors, Encrypt(T_tired, fkey),
             AnalysisColumns(PendingAnalysisResult, fkey))

Stores(multi, fkey) == {<<>>, <<FirstEntry(multi, fkey)>>}

ServerReplies ==
    {ReplyRaise(Exc("APIConnectionError", <<"connection-error">>)),
     ReplyText(Dumps(ObjRich, FALSE)),
     ReplyText(Dumps(ObjEcho, FALSE))}

ServerGateReplies == {ReplyText(T_why), ReplyText(NoneUpper)}

Request(authed, json_ok, date_ok, transcript, flags) ==
    [authed |-> authed, json_ok |-> json_ok, date_ok |-> date_ok, transcript |-> transcript,
     anchors |-> RequestAnchors,
     is_follow_up |-> "is_follow_up" \in flags,
     plan_more_reflections |-> "plan_more_reflections" \in flags,
     is_last_reflection |-> "is_last_reflection" \in flags,
     skip_missing_check |-> "skip_missing_check" \in flags,
     overwrite |-> "overwrite" \in flags]

\* requests that are turned away before any work
RejectedRequests ==
    {Request(FALSE, TRUE, TRUE, T_tired, {}),
     Request(TRUE, FALSE, TRUE, T_tired, {}),
     Request(TRUE, TRUE, FALSE, T_tired, {})}

FlaskRequests ==
    {Request(TRUE, TRUE, TRUE, t, f) :
        t \in {T_tired, T_ctl},
        f \in SUBSET {"is_follow_up", "plan_more_reflections", "is_last_reflection"}}

ServerlessRequests ==
    {Request(TRUE, TRUE, TRUE, t, f) :
        t \in {T_fine, T_ctl, T_tired},
        f \in SUBSET {"is_follow_up", "skip_missing_check", "overwrite"}}

Environment(supabase, key, multi, fkey, accepted) ==
    [supabase |-> supabase, key |-> key, multi |-> multi, fkey |-> fkey, accepted |-> accepted]

\* supabase configured, entry_number column present, ENCRYPTION_KEY set,
\* and the calls of the user accepted in the last window
Environments ==
    {Environment(TRUE, k, m, f, 0) : k \in ApiKeys, m \in BOOLEAN, f \in BOOLEAN}
    \cup {Environment(FALSE, <<"s", "k">>, TRUE, FALSE, 0),
          Environment(TRUE, <<"s", "k">>, TRUE, FALSE, RATE_LIMIT_MAX)}

\* ------------------------------------------------------------------
\* api/weekly-report.py: generate_weekly_report
\* ------------------------------------------------------------------

W_week_narrative ==
    <<"w", "e", "e", "k", "_", "n", "a", "r", "r", "a", "t", "i", "v", "e">>

W_recurring_patterns ==
    <<"r", "e", "c", "u", "r", "r", "i", "n", "g", "_", "p", "a", "t", "t", "e", "r", "n",
    "s">>

W_top_derailers ==
    <<"t", "o", "p", "_", "d", "e", "r", "a", "i", "l", "e", "r", "s">>

W_bright_spots ==
    <<"b", "r", "i", "g", "h", "t", "_", "s", "p", "o", "t", "s">>

W_micro_shifts ==
    <<"m", "i", "c", "r", "o", "_", "s", "h", "i", "f", "t", "s">>

W_weekly_experiment ==
    <<"w", "e", "e", "k", "l", "y", "_", "e", "x", "p", "e", "r", "i", "m", "e", "n", "t">>

W_focus ==
    <<"f", "o", "c", "u", "s">>

W_protocol ==
    <<"p", "r", "o", "t", "o", "c", "o", "l">>

W_mechanism ==
    <<"m", "e", "c", "h", "a", "n", "i", "s", "m">>

W_success_metric ==
    <<"s", "u", "c", "c", "e", "s", "s", "_", "m", "e", "t", "r", "i", "c">>

W_metrics ==
    <<"m", "e", "t", "r", "i", "c", "s">>

W_avg_sleep ==
    <<"a", "v", "g", "_", "s", "l", "e", "e", "p">>

W_avg_sleep_quality ==
    <<"a", "v", "g", "_", "s", "l", "e", "e", "p", "_", "q", "u", "a", "l", "i", "t", "y">>

W_avg_energy ==
    <<"a", "v", "g", "_", "e", "n", "e", "r", "g", "y">>

W_total_deep_work ==
    <<"t", "o", "t", "a", "l", "_", "d", "e", "e", "p", "_", "w", "o", "r", "k">>

W_entries_count ==
    <<"e", "n", "t", "r", "i", "e", "s", "_", "c", "o", "u", "n", "t">>

W_error ==
    <<"e", "r", "r", "o", "r">>

WeeklyKeyNotSetMsg ==
    <<"O", "P", "E", "N", "A", "I", "_", "A", "P", "I", "_", "K", "E", "Y", " ", "n", "o",
    "t", " ", "s", "e", "t">>

ReportFailedPrefix ==
    <<"R", "e", "p", "o", "r", "t", " ", "g", "e", "n", "e", "r", "a", "t", "i", "o", "n",
    " ", "f", "a", "i", "l", "e", "d", ":", " ">>


\* the cap on the entries handed to generate_weekly_report: entries[:14]
WeeklyMaxEntries == 14

\* the distinct dates a report needs
WeeklyNeeded == 7

\* limit(30)
WeeklyFetchLimit == 30

\* A column that may be null or missing is <<>>, a value v is <<v>>.
\* sleep_hours is held in tenths of an hour.
Null == <<>>

Val(v) == <<v>>

\* e.get(name, default) or default
OrDefault(x, default) == IF x = Null \/ x[1] = 0 THEN default ELSE x[1]

\* a row of the entries table as the weekly report reads it
WeeklyEntry(user_id, date, entry_number, sleep_hours, sleep_quality, energy, deep_work_blocks) ==
    [user_id |-> user_id, date |-> date, entry_number |-> entry_number,
     sleep_hours |-> sleep_hours, sleep_quality |-> sleep_quality, energy |-> energy,
     deep_work_blocks |-> deep_work_blocks]

RECURSIVE SumOrZero(_, _, _)
\* the sum with 0 for every missing value, whatever the default
SumOrZero(entries, name, default) ==
    IF Len(entries) = 0 THEN 0
    ELSE OrDefault(Head(entries)[name], 0) + SumOrZero(Tail(entries), name, default)

\* sum(e.get(name, default) or default for e in entries)
RECURSIVE SumOr(_, _, _)
SumOr(entries, name, default) ==
    IF Len(entries) = 0 THEN 0
    ELSE OrDefault(Head(entries)[name], default) + SumOr(Tail(entries), name, default)

\* round(total / n, 1) in tenths, for a total given in tenths: the nearest
\* tenth, the even one when total / n lies exactly between two tenths
RoundTenths(total, n) ==
    LET d == total \div n
        r == total % n
    IN  IF 2 * r < n THEN d
        ELSE IF 2 * r > n THEN d + 1
        ELSE IF d % 2 = 0 THEN d ELSE d + 1

\* a float with one decimal, held in tenths
JTenths(t) == [t |-> "tenths", v |-> t]

\* lines 44-48 and 145-151: the metrics computed from the entries (n > 0)
WeeklyMetrics(entries) ==
    LET n == Len(entries)
    IN  JDict(<<
            Item(W_avg_sleep, JTenths(RoundTenths(SumOr(entries, "sleep_hours", 0), n))),
            Item(W_avg_sleep_quality,
                 JTenths(RoundTenths(10 * SumOr(entries, "sleep_quality", 3), n))),
            Item(W_avg_energy, JTenths(RoundTenths(10 * SumOr(entries, "energy", 3), n))),
            Item(W_total_deep_work, JNum(SumOr(entries, "deep_work_blocks", 0))),
            Item(W_entries_count, JNum(n)) >>)

\* line 41
WeeklyNoKeyResult == JDict(<<Item(W_error, JStr(WeeklyKeyNotSetMsg))>>)

\* lines 157-166
WeeklyFailResult(exc, metrics) ==
    JDict(<<Item(W_error, JStr(ReportFailedPrefix \o ErrMsg(exc))),
            Item(W_metrics, metrics)>>)

\* lines 127-129
RenderNarrative(data) ==
    LET val == Get(data, W_week_narrative, JNull)
    IN  IF IsDict(val) THEN SetItem(data, W_week_narrative, JStr(RenderDict(val, <<NL>>)))
        ELSE data

WeeklyListFields == <<W_recurring_patterns, W_top_derailers, W_bright_spots, W_micro_shifts>>

\* lines 131-137: a missing list field is set to []
RECURSIVE RenderListFields(_, _)
RenderListFields(data, i) ==
    IF i > Len(WeeklyListFields) THEN data
    ELSE LET f == WeeklyListFields[i]
             items == Get(data, f, JList(<<>>))
         IN  RenderListFields(
                 IF IsList(items)
                 THEN SetItem(data, f, JList([k \in 1..Len(items.v) |-> RenderDriver(items.v[k])]))
                 ELSE data,
                 i + 1)

\* lines 139-143
NormalizeExperiment(data) ==
    LET exp == Get(data, W_weekly_experiment, JNull)
    IN  IF IsStr(exp)
        THEN SetItem(data, W_weekly_experiment,
                     JDict(<<Item(W_focus, exp), Item(W_protocol, JStr(<<>>)),
                             Item(W_mechanism, JStr(<<>>)),
                             Item(W_success_metric, JStr(<<>>))>>))
        ELSE data

\* a normalisation that always wrote the computed metrics
PutMetrics(data, metrics) == SetItem(data, W_metrics, metrics)

\* lines 145-151: data.setdefault("metrics", {...})
DefaultMetrics(data, metrics) == SetDefault(data, W_metrics, metrics)

\* lines 126-153
NormalizeWeekly(data, metrics) ==
    IF ~IsDict(data) THEN Raise(Exc("AttributeError", <<"no-attribute-get">>))
    ELSE Return(DefaultMetrics(
             NormalizeExperiment(RenderListFields(RenderNarrative(data), 1)), metrics))

\* a handler that caught only the errors of the parse steps
WeeklyCatchesParseErrors(exc) == exc.type \in {"JSONDecodeError", "ValueError"}

\* line 154: `except Exception`
WeeklyCatches(exc) == TRUE

\* ------------------------------------------------------------------
\* Entries and replies for generate_weekly_report
\* ------------------------------------------------------------------

\* the seven test entries of server.py lines 379-401
DemoEntries ==
    << WeeklyEntry("demo", 17, Null, Val(60), Val(2), Val(2), Val(0)),
       WeeklyEntry("demo", 18, Null, Val(75), Val(3), Val(3), Val(1)),
       WeeklyEntry("demo", 19, Null, Val(70), Val(4), Val(4), Val(2)),
       WeeklyEntry("demo", 20, Null, Val(55), Val(2), Val(2), Val(0)),
       WeeklyEntry("demo", 21, Null, Val(80), Val(4), Val(3), Val(1)),
       WeeklyEntry("demo", 22, Null, Val(75), Val(4), Val(4), Val(2)),
       WeeklyEntry("demo", 23, Null, Val(70), Val(3), Val(3), Val(1)) >>

\* n entries of one user, one per date, counted down from date n; every
\* third one has null anchors
DailyEntries(user_id, n) ==
    [i \in 1..n |->
        IF i % 3 = 0
        THEN WeeklyEntry(user_id, n + 1 - i, Val(1), Null, Null, Null, Null)
        ELSE WeeklyEntry(user_id, n + 1 - i, Val(1), Val(60 + 5 * (i % 4)), Val(1 + (i % 5)),
                         Val(1 + ((i + 2) % 5)), Val(i % 3))]

WeeklyEntryLists ==
    {<<>>, DemoEntries}
    \cup {DailyEntries("u1", n) : n \in {1, WeeklyNeeded + 1, WeeklyMaxEntries}}

WObjPlain == JDict(<<Item(W_week_narrative, JStr(<<"n">>))>>)

\* a response with a metrics object of its own
WObjOwnMetrics ==
    JDict(<<Item(W_week_narrative, JStr(<<"n">>)),
            Item(W_metrics, JDict(<<Item(W_avg_sleep, JNum(1))>>))>>)

WObjMappings ==
    JDict(<<Item(W_week_narrative, JDict(<<Item(<<"a">>, JStr(<<"b">>))>>)),
            Item(W_recurring_patterns,
                 JList(<<JDict(<<Item(<<"a">>, JStr(<<"b">>))>>), JStr(<<"x">>), JNum(1)>>)),
            Item(W_weekly_experiment, JStr(<<"e">>))>>)

WObjNullMetrics == JDict(<<Item(W_metrics, JNull)>>)

WObjOwnError == JDict(<<Item(W_error, JStr(<<"e">>))>>)

WeeklyReplyTexts ==
    {Dumps(o, tc) : o \in {WObjPlain, WObjOwnMetrics, WObjMappings, WObjNullMetrics,
                           WObjOwnError},
                    tc \in BOOLEAN}
    \cup {Fenced(Dumps(WObjPlain, FALSE)), <<>>, <<" ", NL>>, <<"[", "1", "]">>,
          <<"s", "o", "r", "r", "y">>, <<"{", DQ, "a", DQ, ":">>}

WeeklyReplies ==
    {ReplyText(c) : c \in WeeklyReplyTexts}
    \cup {ReplyRaise(Exc("APIConnectionError", <<"connection-error">>)),
          ClientError(Exc("ImportError", <<"no-module-openai">>))}

\* ------------------------------------------------------------------
\* The weekly-report endpoints: server.py weekly_report,
\* api/weekly-report.py do_POST
\* ------------------------------------------------------------------

\* a date that is null or missing
NoDate == 0

\* the rows of one user, in the order of the table
RowsOf(rows, user_id) == SelectSeq(rows, LAMBDA e : e.user_id = user_id)

\* .order("date", desc=True): rows of one date keep the table's order
RECURSIVE InsertByDateDesc(_, _)
InsertByDateDesc(sorted, e) ==
    IF Len(sorted) = 0 THEN <<e>>
    ELSE IF Head(sorted).date >= e.date
    THEN <<Head(sorted)>> \o InsertByDateDesc(Tail(sorted), e)
    ELSE <<e>> \o sorted

RECURSIVE OrderByDateDesc(_)
OrderByDateDesc(rows) ==
    IF Len(rows) = 0 THEN <<>>
    ELSE InsertByDateDesc(OrderByDateDesc(SubSeq(rows, 1, Len(rows) - 1)), rows[Len(rows)])

\* rows[:n]
Take(rows, n) == SubSeq(rows, 1, IF Len(rows) < n THEN Len(rows) ELSE n)

\* select("*").eq("user_id", user_id).order("date", desc=True).limit(30)
FetchRecent(rows, user_id) == Take(OrderByDateDesc(RowsOf(rows, user_id)), WeeklyFetchLimit)

\* set(e.get("date") for e in entries if e.get("date"))
UniqueDates(entries) == {entries[i].date : i \in 1..Len(entries)} \ {NoDate}

\* a gate that counted rows, not dates
CountRows(entries) == Len(entries)

\* len(unique_dates)
CountDates(entries) == Cardinality(UniqueDates(entries))

\* the elements of a set of dates in increasing order
RECURSIVE SortedDates(_)
SortedDates(dates) ==
    IF dates = {} THEN <<>>
    ELSE LET d == CHOOSE x \in dates : \A y \in dates : x <= y
         IN  <<d>> \o SortedDates(dates \ {d})

\* api/weekly-report.py lines 215-219: the row kept for date d is the
\* last one with entry_number 1, the first one of the date when none has
RowOfDate(entries, d) ==
    LET of_date == SelectSeq(entries, LAMBDA e : e.date = d)
        firsts == SelectSeq(of_date, LAMBDA e : e.entry_number = Val(1))
    IN  IF Len(firsts) > 0 THEN firsts[Len(firsts)] ELSE of_date[1]

\* api/weekly-report.py lines 215-220
ByDate(entries) ==
    LET dates == SortedDates(UniqueDates(entries))
    IN  [k \in 1..Len(dates) |-> RowOfDate(entries, dates[k])]

\* report.get("error") and not report.get("week_narrative")
ReportFailed(report) ==
    Truthy(Get(report, W_error, JNull)) /\ ~Truthy(Get(report, W_week_narrative, JNull))

\* an answer of a weekly-report endpoint: status 0 when the handler
\* raised, kind "error", "locked" or "report", the count of a locked
\* answer, the report and the entries attached to it
WeeklyResponse(status, kind, count, report, entries) ==
    [status |-> status, kind |-> kind, count |-> count, report |-> report, entries |-> entries]

NoWeeklyResponse == WeeklyResponse(0, "", 0, JNull, <<>>)

ErrorResponse(status) == WeeklyResponse(status, "error", 0, JNull, <<>>)

\* {"locked": True, "entries_count": entries_count, "needed": 7}
LockedResponse(count) == WeeklyResponse(200, "locked", count, JNull, <<>>)

\* ------------------------------------------------------------------
\* Stores, requests and environments of the weekly-report endpoints
\* ------------------------------------------------------------------

\* k more rows of one date, numbered from entry_number first
MoreRows(user_id, date, first, k) ==
    [i \in 1..k |-> WeeklyEntry(user_id, date, Val(first + i - 1), Val(70), Val(3), Val(3), Val(1))]

\* the rows a second user has stored: enough dates for a report
OtherUserRows == DailyEntries("u2", WeeklyNeeded)

\* more rows of the latest date than the select returns besides
ManyRowsOneDate == WeeklyFetchLimit - 4

WeeklyStores ==
    { <<>>,
      OtherUserRows,
      DailyEntries("u1", 1) \o OtherUserRows,
      \* eight rows and a row without date, on six dates
      DailyEntries("u1", WeeklyNeeded - 1) \o MoreRows("u1", 2, 2, 2)
          \o <<WeeklyEntry("u1", NoDate, Val(1), Val(70), Val(3), Val(3), Val(1))>>
          \o OtherUserRows,
      DailyEntries("u1", WeeklyNeeded),
      MoreRows("u1", 3, 2, 1) \o DailyEntries("u1", WeeklyNeeded + 1) \o OtherUserRows,
      DailyEntries("u1", WeeklyMaxEntries + 1),
      \* seven dates, of which the most recent 30 rows cover five
      DailyEntries("u1", WeeklyNeeded - 1) \o MoreRows("u1", WeeklyNeeded, 1, ManyRowsOneDate),
      \* seven dates, of which the most recent 14 rows cover four
      DailyEntries("u1", WeeklyNeeded) \o MoreRows("u1", WeeklyNeeded, 2, WeeklyMaxEntries - 4) }

\* the body of the request: not JSON, a JSON object, a JSON object with
\* "demo": true, JSON that is not an object
WeeklyBodies == {"invalid", "object", "demo", "list"}

WeeklyRequest(user_id, body) == [user_id |-> user_id, body |-> body]

\* "" is a request without a valid token
WeeklyRequests == {WeeklyRequest(u, b) : u \in {"", "u1", "u2"}, b \in WeeklyBodies}

WeeklyEnvironment(supabase, key, accepted) ==
    [supabase |-> supabase, key |-> key, accepted |-> accepted]

WeeklyEnvironments ==
    {WeeklyEnvironment(TRUE, k, 0) : k \in ApiKeys}
    \cup {WeeklyEnvironment(FALSE, <<"s", "k">>, 0),
          WeeklyEnvironment(TRUE, <<"s", "k">>, RATE_LIMIT_MAX)}

WeeklyServerReplies ==
    {ReplyText(Dumps(WObjPlain, FALSE)), ReplyText(Dumps(WObjOwnError, FALSE)),
     ReplyRaise(Exc("APIConnectionError", <<"connection-error">>))}

\* ------------------------------------------------------------------
\* api/security.py: encrypt and decrypt as called
\* ------------------------------------------------------------------

\* a lone surrogate code point, as json.loads gives for an escape such
\* as \ud83d: str.encode("utf-8") raises on it
SUR == "sur"

HasSurrogate(text) == \E i \in 1..Len(text) : text[i] = SUR

\* ENCRYPTION_KEY: "none" when unset, "valid" for a Fernet key,
\* "malformed" for a value Fernet(...) refuses
KeyConfigs == {"none", "valid", "malformed"}

\* lines 59-66: encrypt(text), text a str or None
EncryptCall(x, key) ==
    IF ~x.some \/ Len(x.val) = 0 THEN Return(x)
    ELSE IF key = "none" THEN Return(x)
    ELSE IF key = "malformed" THEN Raise(Exc("ValueError", <<"fernet-key">>))
    ELSE IF HasSurrogate(x.val) THEN Raise(Exc("UnicodeEncodeError", <<"surrogates">>))
    ELSE Return(Some(Encrypt(x.val, TRUE)))

\* lines 69-79: decrypt(text); the encode and the decrypt are inside the
\* try block, _get_fernet is not
DecryptCall(x, key) ==
    IF ~x.some \/ Len(x.val) = 0 THEN Return(x)
    ELSE IF key = "none" THEN Return(x)
    ELSE IF key = "malformed" THEN Raise(Exc("ValueError", <<"fernet-key">>))
    ELSE IF HasSurrogate(x.val) THEN Return(x)
    ELSE Return(Some(Decrypt(x.val, TRUE)))

CryptoTexts ==
    {<<>>, <<"a">>, <<" ">>, T_tired, T_fine, T_ctl, <<ENC, "a">>, <<ENC>>, <<"a", ENC>>,
     <<SUR>>, <<"a", SUR, "b">>, <<ENC, SUR>>}

CryptoInputs == {NoneVal} \cup {Some(t) : t \in CryptoTexts}

\* ------------------------------------------------------------------
\* api/security.py: clamp_int and clamp_float
\* ------------------------------------------------------------------

\* a float that is no finite number: "inf", "-inf" or "nan"
JFloat(kind) == [t |-> "float", v |-> kind]

IsFinite(x) == x.t \in {"num", "tenths"}

\* the value of a finite number in tenths
Tenths(x) == IF x.t = "num" THEN 10 * x.v ELSE x.v

\* a < b on Python numbers: every comparison with nan is False
PyLess(a, b) ==
    IF IsFinite(a) /\ IsFinite(b) THEN Tenths(a) < Tenths(b)
    ELSE IF a = JFloat("nan") \/ b = JFloat("nan") THEN FALSE
    ELSE IF a = b THEN FALSE
    ELSE a = JFloat("-inf") \/ b = JFloat("inf")

\* min(a, b): b when b < a, else a
PyMin(a, b) == IF PyLess(b, a) THEN b ELSE a

\* max(a, b): b when b > a, else a
PyMax(a, b) == IF PyLess(a, b) THEN b ELSE a

\* an optional sign, then the rest
Unsigned(text) ==
    IF Len(text) > 0 /\ text[1] \in {"+", "-"} THEN Tail(text) ELSE text

Negative(text) == Len(text) > 0 /\ text[1] = "-"

AllDigits(text) == Len(text) > 0 /\ \A i \in 1..Len(text) : IsDigit(text[i])

Signed(text, n) == IF Negative(text) THEN 0 - n ELSE n

\* int(value) toward zero, for a value in tenths
Truncate(t) == IF t >= 0 THEN t \div 10 ELSE 0 - ((0 - t) \div 10)

\* int(value)
PyInt(value) ==
    CASE value.t = "num" -> Return(value)
      [] value.t = "bool" -> Return(JNum(IF value.v THEN 1 ELSE 0))
      [] value.t = "tenths" -> Return(JNum(Truncate(value.v)))
      [] value.t = "float" ->
            IF value.v = "nan" THEN Raise(Exc("ValueError", <<"float-nan-to-int">>))
            ELSE Raise(Exc("OverflowError", <<"float-infinity-to-int">>))
      [] value.t = "str" ->
            LET text == Strip(value.v)
            IN  IF AllDigits(Unsigned(text))
                THEN Return(JNum(Signed(text, DigitsToInt(Unsigned(text)))))
                ELSE Raise(Exc("ValueError", <<"invalid-literal">>))
      [] OTHER -> Raise(Exc("TypeError", <<"int-argument">>))

\* float(value); of the literals with a point, those of the form 1. and 1.5
PyFloat(value) ==
    CASE value.t = "num" -> Return(JTenths(10 * value.v))
      [] value.t = "bool" -> Return(JTenths(IF value.v THEN 10 ELSE 0))
      [] value.t = "tenths" -> Return(value)
      [] value.t = "float" -> Return(value)
      [] value.t = "str" ->
            LET text == Lower(Strip(value.v))
                body == Unsigned(text)
                n == Len(body)
            IN  IF body = <<"n", "a", "n">> THEN Return(JFloat("nan"))
                ELSE IF body \in {<<"i", "n", "f">>, <<"i", "n", "f", "i", "n", "i", "t", "y">>}
                THEN Return(JFloat(IF Negative(text) THEN "-inf" ELSE "inf"))
                ELSE IF AllDigits(body)
                THEN Return(JTenths(Signed(text, 10 * DigitsToInt(body))))
                ELSE IF n >= 2 /\ body[n] = "." /\ AllDigits(SubSeq(body, 1, n - 1))
                THEN Return(JTenths(Signed(text, 10 * DigitsToInt(SubSeq(body, 1, n - 1)))))
                ELSE IF n >= 3 /\ body[n - 1] = "." /\ AllDigits(SubSeq(body, 1, n - 2))
                        /\ IsDigit(body[n])
                THEN Return(JTenths(Signed(text, 10 * DigitsToInt(SubSeq(body, 1, n - 2))
                                                 + DigitVal(body[n]))))
                ELSE Raise(Exc("ValueError", <<"could-not-convert">>))
      [] OTHER -> Raise(Exc("TypeError", <<"float-argument">>))

\* the conversion of clamp_int (line 96) or of clamp_float (line 105)
Convert(fn, value) == IF fn = "clamp_int" THEN PyInt(value) ELSE PyFloat(value)

\* lines 98 and 107: except (TypeError, ValueError)
ClampCatches(exc) == exc.type \in {"TypeError", "ValueError"}

\* lines 97 and 106: max(low, min(high, v))
ClampTo(low, high, v) == PyMax(low, PyMin(high, v))

\* lines 93-99 and 102-108; default is Null for None
Clamp(fn, value, low, high, default) ==
    LET r == Convert(fn, value)
    IN  IF r.ok THEN Return(ClampTo(low, high, r.val))
        ELSE IF ClampCatches(r.exc)
        THEN Return(IF default # Null THEN default[1] ELSE low)
        ELSE r

ClampStrings ==
    {<<"a", "b", "c">>, <<"n", "a", "n">>, <<"N", "a", "N">>, <<"i", "n", "f">>,
     <<"-", "i", "n", "f">>, <<"5">>, <<"-", "3">>, <<" ", "4", " ">>, <<"9", "9">>,
     <<"3", ".", "7">>, <<>>, <<"+">>, <<"1", ".">>}

ClampValues ==
    {JStr(t) : t \in ClampStrings}
    \cup {JNum(n) : n \in {-3, 0, 3, 10, 25}}
    \cup {JTenths(t) : t \in {-5, 37, 250}}
    \cup {JFloat(k) : k \in {"inf", "-inf", "nan"}}
    \cup {JNull, JBool(TRUE), JList(<<JNum(1)>>)}

\* the calls of server.py lines 266-269, and the tests' calls
ClampRanges ==
    {[low |-> JNum(0), high |-> JNum(24), default |-> Val(JNum(0))],
     [low |-> JNum(1), high |-> JNum(5), default |-> Val(JNum(3))],
     [low |-> JNum(0), high |-> JNum(24), default |-> Val(JTenths(70))],
     [low |-> JNum(1), high |-> JNum(5), default |-> Null]}

\* ------------------------------------------------------------------
\* api/security.py: verify_token and get_user_id
\* ------------------------------------------------------------------

\* a JWT: whether it decodes at all, the key its signature was made
\* with ("secret" for SUPABASE_JWT_SECRET with HS256, "other" for another
\* key, "none" for no signature), and its exp, aud and sub claims
Token(wellformed, signer, expired, aud, sub) ==
    [wellformed |-> wellformed, signer |-> signer, expired |-> expired, aud |-> aud, sub |-> sub]

Tokens ==
    {Token(w, k, e, a, u) :
        w \in BOOLEAN, k \in {"secret", "other", "none"}, e \in BOOLEAN,
        a \in {"authenticated", "anon", ""}, u \in {"u1", "u2", ""}}

\* the Authorization header: its scheme and, for "Bearer ", the token
\* that follows; scheme "" is a missing or empty header
Header(scheme, token) == [scheme |-> scheme, token |-> token]

NoToken == Token(FALSE, "none", FALSE, "", "")

Headers ==
    {Header("Bearer ", t) : t \in Tokens}
    \cup {Header("", NoToken), Header("Basic ", NoToken), Header("bearer ", NoToken)}

\* no payload
NoPayload == [some |-> FALSE, sub |-> ""]

Payload(token) == [some |-> TRUE, sub |-> token.sub]

\* lines 28-33: jwt.decode(token, SUPABASE_JWT_SECRET, algorithms=["HS256"],
\* audience="authenticated")
DecodeVerified(token) ==
    token.wellformed /\ token.signer = "secret" /\ ~token.expired /\ token.aud = "authenticated"

\* line 22: jwt.decode(token, options={"verify_signature": False}); the
\* signature, exp and aud are not looked at
DecodeUnverified(token) == token.wellformed

\* lines 13-36: verify_token
VerifyToken(header, secret_set) ==
    IF header.scheme # "Bearer " THEN NoPayload
    ELSE IF ~secret_set
    THEN (IF DecodeUnverified(header.token) THEN Payload(header.token) ELSE NoPayload)
    ELSE IF DecodeVerified(header.token) THEN Payload(header.token)
    ELSE NoPayload

\* lines 39-44: get_user_id; "" stands for None
GetUserId(header, secret_set) ==
    LET payload == VerifyToken(header, secret_set)
    IN  IF payload.some /\ payload.sub # "" THEN payload.sub ELSE ""

\* ------------------------------------------------------------------
\* The entries endpoints: server.py list_entries and get_entry,
\* api/entries/index.py and api/entries/[id].py do_GET
\* ------------------------------------------------------------------

\* limit(90)
ListLimit == 90

\* a row of the entries table as the entries endpoints read it;
\* entry_number is Null in a table without that column
StoredEntry(id, user_id, date, entry_number, transcript, reflection_summary) ==
    [id |-> id, user_id |-> user_id, date |-> date, entry_number |-> entry_number,
     transcript |-> transcript, reflection_summary |-> reflection_summary]

\* the columns the list endpoints select: no user_id, no transcript
ListColumns(row) == [row EXCEPT !.user_id = "", !.transcript = <<>>]

\* api/entries/[id].py lines 59-61: a text that is still a token is hidden
SafeDecrypt(val, fkey) ==
    LET text == Decrypt(val, fkey)
    IN  IF Len(text) > 0 /\ text[1] = ENC THEN <<>> ELSE text

\* an answer of an entries endpoint: status 0 when the handler raised;
\* data holds the rows returned, final the is_final_for_day of a
\* single entry
EntriesResponse(status, data, final) == [status |-> status, data |-> data, final |-> final]

NoEntriesResponse == EntriesResponse(0, <<>>, FALSE)

\* .eq("id", entry_id).eq("user_id", user_id)
RowsById(rows, entry_id, user_id) ==
    SelectSeq(rows, LAMBDA e : e.id = entry_id /\ e.user_id = user_id)

\* validate_uuid: of the ids of the requests, "bad" is no UUID
ValidUuid(entry_id) == entry_id # "bad"

\* api/entries/[id].py lines 68-76
IsFinalForDay(rows, entry, user_id, same_day_ok) ==
    IF ~same_day_ok THEN TRUE
    ELSE LET same_day == SelectSeq(rows, LAMBDA e : e.user_id = user_id /\ e.date = entry.date)
             nums == {OrDefault(same_day[i].entry_number, 1) : i \in 1..Len(same_day)}
         IN  \/ OrDefault(entry.entry_number, 1) = (IF nums = {} THEN 1 ELSE SetMax(nums))
             \/ Len(same_day) = 1

\* server.py lines 155-168 and api/entries/index.py lines 36-50: the
\* select ("ok"), the second select after the first raised
\* ("no_column"), or both raised ("error")
ListEntries(rows, user_id, fkey, outcome, flask) ==
    IF outcome = "error" THEN EntriesResponse(IF flask THEN 500 ELSE 0, <<>>, FALSE)
    ELSE LET found == Take(OrderByDateDesc(RowsOf(rows, user_id)), ListLimit)
         IN  EntriesResponse(200,
                 [i \in 1..Len(found) |->
                     [ListColumns(found[i]) EXCEPT
                         !.entry_number = IF outcome = "ok" THEN @ ELSE Null,
                         !.reflection_summary = Decrypt(@, fkey)]],
                 FALSE)

\* server.py lines 212-221: single() gives the row, or for no row
\* either no data ("none") or an exception ("raises"); "error" is a
\* select that failed
GetEntryFlask(rows, entry_id, user_id, fkey, outcome) ==
    LET found == RowsById(rows, entry_id, user_id)
    IN  IF outcome = "error" THEN EntriesResponse(500, <<>>, FALSE)
        ELSE IF Len(found) = 0
        THEN EntriesResponse(IF outcome = "raises" THEN 500 ELSE 404, <<>>, FALSE)
        ELSE EntriesResponse(200,
                 <<[found[1] EXCEPT !.transcript = Decrypt(@, fkey),
                                    !.reflection_summary = Decrypt(@, fkey)]>>,
                 FALSE)

\* api/entries/[id].py lines 52-83: the exception of single() for no
\* row names "0 rows" and is answered 404
GetEntryServerless(rows, entry_id, user_id, fkey, outcome, same_day_ok) ==
    LET found == RowsById(rows, entry_id, user_id)
    IN  IF outcome = "error" THEN EntriesResponse(500, <<>>, FALSE)
        ELSE IF Len(found) = 0 THEN EntriesResponse(404, <<>>, FALSE)
        ELSE EntriesResponse(200,
                 <<[found[1] EXCEPT !.transcript = SafeDecrypt(@, fkey),
                                    !.reflection_summary = SafeDecrypt(@, fkey)]>>,
                 IsFinalForDay(rows, found[1], user_id, same_day_ok))

\* the entries of user u1: none, one, or three on two dates
OwnRows ==
    {<<>>,
     <<StoredEntry("a1", "u1", 1, Val(1), <<"t", "1">>, <<"s", "1">>)>>,
     <<StoredEntry("a1", "u1", 1, Val(1), <<ENC, "t", "1">>, <<ENC, "s", "1">>),
       StoredEntry("a2", "u1", 1, Val(2), <<"t", "2">>, <<>>),
       StoredEntry("a3", "u1", 2, Null, <<ENC, "t", "3">>, <<"s", "3">>)>>}

\* the entries of user u2
OtherRows ==
    {<<>>,
     <<StoredEntry("b1", "u2", 1, Val(1), <<"t", "b">>, <<"s", "b">>)>>,
     <<StoredEntry("b1", "u2", 2, Val(1), <<ENC, "x">>, <<ENC, "y">>),
       StoredEntry("b2", "u2", 2, Val(2), <<"t", "c">>, <<"s", "c">>)>>}

\* the ids requested: own ones, one of u2, one of no entry, no UUID
RequestedIds == {"a1", "a3", "b1", "zz", "bad"}

\* supabase configured, ENCRYPTION_KEY set, rate limit reached
EntriesEnvironment(supabase, fkey, limited) ==
    [supabase |-> supabase, fkey |-> fkey, limited |-> limited]

EntriesEnvironments ==
    {EntriesEnvironment(TRUE, f, FALSE) : f \in BOOLEAN}
    \cup {EntriesEnvironment(FALSE, FALSE, FALSE), EntriesEnvironment(TRUE, FALSE, TRUE)}

\* ------------------------------------------------------------------
\* api/check-topics.py and the check-topics route of server.py
\* ------------------------------------------------------------------

Q_sleep ==
    <<"H", "o", "w", " ", "d", "i", "d", " ", "y", "o", "u", " ", "s", "l", "e", "e", "p", "?">>

Q_feeling ==
    <<"W", "h", "a", "t", " ", "a", "r", "e", " ", "y", "o", "u", " ", "f", "e", "e", "l", "i",
    "n", "g", "?">>

Q_attempt ==
    <<"W", "h", "a", "t", " ", "d", "i", "d", " ", "y", "o", "u", " ", "a", "t", "t", "e", "m",
    "p", "t", "?">>

\* the three questions, in the order the code lists them
AllQuestions == <<Q_sleep, Q_feeling, Q_attempt>>

\* regex \w over the characters the model uses
IsWordChar(c) ==
    \/ \E i \in 1..Len(LowerLetters) : LowerLetters[i] = c \/ UpperLetters[i] = c
    \/ IsDigit(c)
    \/ c = "_"

\* the maximal runs of word characters of t: the only places where
\* \b(w1|w2|...)\b can match words made of word characters
Words(t) ==
    {SubSeq(t, p[1], p[2]) :
        p \in {q \in (1..Len(t)) \X (1..Len(t)) :
                /\ q[1] <= q[2]
                /\ \A i \in q[1]..q[2] : IsWordChar(t[i])
                /\ q[1] = 1 \/ ~IsWordChar(t[q[1] - 1])
                /\ q[2] = Len(t) \/ ~IsWordChar(t[q[2] + 1])}}

\* re.search(r"\b(w1|w2|...)\b", t)
SearchWords(words, t) == Words(t) \cap words # {}

\* sleep|slept|rest|woke|nap|bed|insomnia|alright|well|hours?|asleep|...
SleepWords ==
    {<<"s", "l", "e", "e", "p">>, <<"s", "l", "e", "p", "t">>, <<"r", "e", "s", "t">>,
     <<"w", "o", "k", "e">>, <<"n", "a", "p">>, <<"b", "e", "d">>,
     <<"i", "n", "s", "o", "m", "n", "i", "a">>, <<"a", "l", "r", "i", "g", "h", "t">>,
     <<"w", "e", "l", "l">>, <<"h", "o", "u", "r">>, <<"h", "o", "u", "r", "s">>,
     <<"a", "s", "l", "e", "e", "p">>,
     <<"r", "e", "s", "t", "o", "r", "a", "t", "i", "v", "e">>,
     <<"r", "e", "s", "t", "l", "e", "s", "s">>}

FeelingWords ==
    {<<"f", "e", "e", "l">>, <<"f", "e", "l", "t">>, <<"f", "e", "e", "l", "i", "n", "g">>,
     <<"e", "n", "e", "r", "g", "y">>, <<"m", "o", "o", "d">>,
     <<"s", "t", "r", "e", "s", "s", "e", "d">>, <<"a", "n", "x", "i", "o", "u", "s">>,
     <<"h", "a", "p", "p", "y">>, <<"s", "a", "d">>, <<"t", "i", "r", "e", "d">>,
     <<"e", "x", "h", "a", "u", "s", "t", "e", "d">>, <<"d", "r", "a", "i", "n", "e", "d">>,
     <<"b", "o", "t", "h", "e", "r", "e", "d">>, <<"d", "o", "w", "n">>, <<"l", "o", "w">>,
     <<"g", "r", "e", "a", "t">>, <<"c", "a", "l", "m">>,
     <<"r", "e", "l", "a", "x", "e", "d">>, <<"m", "o", "t", "i", "v", "a", "t", "e", "d">>,
     <<"r", "e", "s", "t", "l", "e", "s", "s">>, <<"g", "r", "o", "g", "g", "y">>,
     <<"h", "e", "a", "v", "y">>}

AttemptWords ==
    {<<"w", "o", "r", "k">>, <<"w", "o", "r", "k", "e", "d">>,
     <<"a", "t", "t", "e", "m", "p", "t">>, <<"t", "r", "i", "e", "d">>, <<"d", "i", "d">>,
     <<"t", "a", "s", "k">>, <<"p", "r", "o", "j", "e", "c", "t">>,
     <<"f", "o", "c", "u", "s">>, <<"s", "t", "u", "d", "y">>,
     <<"m", "e", "e", "t", "i", "n", "g">>, <<"c", "l", "a", "s", "s">>,
     <<"p", "r", "o", "d", "u", "c", "t", "i", "v", "e">>,
     <<"u", "n", "p", "r", "o", "d", "u", "c", "t", "i", "v", "e">>,
     <<"n", "o", "t", "h", "i", "n", "g">>, <<"r", "e", "a", "d">>,
     <<"e", "x", "e", "r", "c", "i", "s", "e">>, <<"c", "h", "i", "l", "l", "e", "d">>}

\* (feel|i'm|im)
FeelStarts ==
    {<<"f", "e", "e", "l">>, <<"i", "'", "m">>, <<"i", "m">>}

\* (okay|fine|good|bad)
FeelEnds ==
    {<<"o", "k", "a", "y">>, <<"f", "i", "n", "e">>, <<"g", "o", "o", "d">>, <<"b", "a", "d">>}

\* re.search(r"(feel|i'm|im)\s+(okay|fine|good|bad)", t): no word boundary
SearchFeelPhrase(t) ==
    \E i \in 1..Len(t), j \in 1..Len(t), a \in FeelStarts, b \in FeelEnds :
        /\ i + Len(a) - 1 < j
        /\ SubSeq(t, i, i + Len(a) - 1) = a
        /\ \A k \in (i + Len(a))..j : IsSpace(t[k])
        /\ j + Len(b) <= Len(t)
        /\ SubSeq(t, j + 1, j + Len(b)) = b

\* _fallback_check_topics (the same text in both files)
FallbackCheckTopics(text) ==
    LET t == Lower(text)
    IN  (IF ~SearchWords(SleepWords, t) THEN <<Q_sleep>> ELSE <<>>)
        \o (IF ~SearchWords(FeelingWords, t) /\ ~SearchFeelPhrase(t)
            THEN <<Q_feeling>> ELSE <<>>)
        \o (IF ~SearchWords(AttemptWords, t) THEN <<Q_attempt>> ELSE <<>>)

RECURSIVE Replace(_, _, _)
\* s.replace(old, new), old not empty
Replace(s, old, new) ==
    IF Occurrences(s, old) = {} THEN s
    ELSE LET i == SetMin(Occurrences(s, old))
         IN  Prefix(s, i) \o new \o Replace(SliceFrom(s, i + Len(old)), old, new)

\* len(text) < 5
TopicsMinLen == 5

\* sanitize_text(..., max_length=2000)
TopicsMaxLen == 2000

\* raw = (content or "").strip(); a leading fence is split off
TopicsRaw(content) ==
    LET raw == Strip(content)
    IN  IF StartsWith(raw, Fence)
        THEN Strip(Replace(SplitSecond(raw, Fence), JsonTag, <<>>))
        ELSE raw

\* [q for q in out if isinstance(q, str) and q in (...)]: iterating a list
\* gives its items, a dict its keys, a string its characters
TopicsIterate(out) ==
    CASE out.t = "list" -> out.v
      [] out.t = "dict" -> [i \in 1..Len(out.v) |-> JStr(out.v[i].k)]
      [] out.t = "str" -> [i \in 1..Len(out.v) |-> JStr(<<out.v[i]>>)]

IsQuestion(q) == \E i \in 1..Len(AllQuestions) : AllQuestions[i] = q

StrValue(x) == x.v

\* what a check-topics endpoint answers: the missing questions, the
\* bias_warning member when the answer has one, and the model calls made
TopicsAnswer(status, missing, bias, calls) ==
    [status |-> status, missing |-> missing, bias |-> bias, calls |-> calls]

\* api/check-topics.py: handler.do_POST and check_topics_with_gpt up to
\* the model call: the answer, or Null when the model is called
ServerlessTopicsEarly(body_ok, body_text, key) ==
    LET text == Strip(body_text)
    IN  IF ~body_ok THEN Val(TopicsAnswer(400, AllQuestions, Null, 0))
        ELSE IF ~key \/ Len(Strip(text)) < TopicsMinLen
        THEN Val(TopicsAnswer(200,
                     IF Len(Strip(text)) < TopicsMinLen THEN AllQuestions ELSE <<>>,
                     Null, 0))
        ELSE Null

\* api/check-topics.py: check_topics_with_gpt after the model call, out
\* being what json.loads made of the reply
ServerlessTopicsAnswer(text, raises, out) ==
    IF raises \/ ~out.ok \/ out.val.t \notin {"list", "dict", "str"}
    THEN TopicsAnswer(200, FallbackCheckTopics(text), Null, 1)
    ELSE TopicsAnswer(200,
             [i \in 1..Len(SelectSeq(TopicsIterate(out.val),
                                     LAMBDA q : q.t = "str" /\ IsQuestion(q.v)))
                 |-> StrValue(SelectSeq(TopicsIterate(out.val),
                                     LAMBDA q : q.t = "str" /\ IsQuestion(q.v))[i])],
             Null, 1)

K_missing == <<"m", "i", "s", "s", "i", "n", "g">>

K_bias_warning ==
    <<"b", "i", "a", "s", "_", "w", "a", "r", "n", "i", "n", "g">>

\* server.py: check_topics up to the model call: the answer, or Null when
\* the model is called
FlaskTopicsEarly(body_ok, body_text, key) ==
    LET text == SanitizeText(IF body_ok THEN body_text ELSE <<>>, TopicsMaxLen)
    IN  IF Len(text) < TopicsMinLen THEN Val(TopicsAnswer(200, AllQuestions, Null, 0))
        ELSE IF ~key THEN Val(TopicsAnswer(200, FallbackCheckTopics(text), Null, 0))
        ELSE Null

\* server.py: check_topics, the text handed to json.loads: from the first
\* opening brace to the last closing brace when there are both
FlaskTopicsRaw(content) ==
    LET raw0 == TopicsRaw(content)
        start == Find(raw0, <<"{">>)
        end == RFind(raw0, <<"}">>) + 1
    IN  IF start >= 0 /\ end > start THEN Slice(raw0, start, end) ELSE raw0

\* server.py: check_topics after the model call, out being what
\* json.loads made of the reply
FlaskTopicsAnswer(text, raises, out) ==
    LET missing == IF out.val.t = "dict" THEN Get(out.val, K_missing, JList(<<>>)) ELSE out.val
        strs == IF missing.t = "list" THEN SelectSeq(missing.v, LAMBDA q : q.t = "str")
                ELSE <<>>
    IN  IF raises \/ ~out.ok
        THEN TopicsAnswer(200, FallbackCheckTopics(text), Null, 1)
        ELSE TopicsAnswer(200, [i \in 1..Len(strs) |-> StrValue(strs[i])],
                          Val(IF out.val.t = "dict" THEN Get(out.val, K_bias_warning, JNull)
                              ELSE JNull),
                          1)

\* the texts of the requests

TT_complete ==
    <<"s", "l", "e", "p", "t", " ", "w", "e", "l", "l", ",", " ", "f", "e", "l", "t", " ", "t",
    "i", "r", "e", "d", ",", " ", "d", "i", "d", " ", "w", "o", "r", "k">>

TT_upper ==
    <<"I", " ", "S", "l", "e", "p", "t", " ", "b", "a", "d", "l", "y">>

TT_inside ==
    <<"s", "l", "e", "e", "p", "y", " ", "a", "n", "d", " ", "w", "o", "r", "k", "i", "n", "g">>

TT_him_good ==
    <<"h", "i", "m", " ", "g", "o", "o", "d", " ", "t", "o", "d", "a", "y">>

TT_short ==
    <<"o", "k">>

TT_padded ==
    <<" ", " ", "h", "i", " ", " ">>

TT_im_fine ==
    <<"i", "'", "m", " ", " ", "f", "i", "n", "e">>

TT_hours ==
    <<"w", "o", "r", "k", "e", "d", " ", "8", " ", "h", "o", "u", "r", "s">>

TT_nothing ==
    <<"n", "o", "t", "h", "i", "n", "g">>

TT_newline ==
    <<"f", "e", "l", "t", NL, "g", "r", "e", "a", "t">>

TT_rest_day ==
    <<"r", "e", "s", "t", "_", "d", "a", "y", " ", "o", "f", "f">>

TopicTexts ==
    {TT_complete, TT_upper, TT_inside, TT_him_good, TT_short, TT_padded,
     TT_im_fine, TT_hours, TT_nothing, TT_newline, TT_rest_day}

Q_guiding ==
    <<"A", "n", "y", " ", "w", "i", "n", "s", "?">>

\* what the model may answer to the check-topics prompt
TopicReplies ==
    {ReplyRaise(Exc("APIError", <<"api-error">>)),
     ReplyText(Dumps(JList(<<JStr(Q_sleep)>>), FALSE)),
     ReplyText(Fenced(Dumps(JList(<<JStr(Q_feeling), JStr(Q_guiding), JNum(3)>>), FALSE))),
     ReplyText(Dumps(JDict(<<Item(K_missing, JList(<<JStr(Q_attempt), JStr(Q_guiding)>>)),
                             Item(K_bias_warning, JStr(<<"o", "f", "f">>))>>), FALSE)),
     ReplyText(InProse(Dumps(JDict(<<Item(K_missing, JList(<<>>)),
                                     Item(K_bias_warning, JNull)>>), FALSE))),
     ReplyText(Dumps(JDict(<<Item(Q_sleep, JNum(1))>>), FALSE)),
     ReplyText(<<"3">>),
     ReplyText(<<>>)}

\* ------------------------------------------------------------------
\* server.py: check_rate_limit
\* ------------------------------------------------------------------

\* server.py: RATE_LIMIT_WINDOW
RATE_LIMIT_WINDOW == 60

\* [t for t in _rate_limits[key] if now - t < RATE_LIMIT_WINDOW]
PruneStamps(stamps, now) == SelectSeq(stamps, LAMBDA t : now - t < RATE_LIMIT_WINDOW)

\* the test that lets a call through with one stamp more than the limit
RateLimitAcceptsAtMax(stamps) == ~(Len(stamps) > RATE_LIMIT_MAX)

\* not (len(_rate_limits[key]) >= RATE_LIMIT_MAX)
RateLimitAccepts(stamps) == ~(Len(stamps) >= RATE_LIMIT_MAX)

\* check_rate_limit(key) at time now: the returned value and the new
\* _rate_limits (a key never seen holds the empty list)
CheckRateLimit(limits, key, now) ==
    LET kept == PruneStamps(limits[key], now)
    IN  IF ~RateLimitAccepts(kept)
        THEN [ok |-> FALSE, limits |-> [limits EXCEPT ![key] = kept]]
        ELSE [ok |-> TRUE, limits |-> [limits EXCEPT ![key] = Append(kept, now)]]

\* the users whose requests arrive
RateKeys == {"u1", "u2"}

\* the readings of time.time() at which requests arrive
ClockTimes == <<0, 59, 60>>

\* the number of requests of u1 and of u2
MaxCalls == 32

MaxOtherCalls == 1

\* ------------------------------------------------------------------
\* Two submit-analysis requests for one user and date: the select of the
\* day's entries and the insert of the new row
\* ------------------------------------------------------------------

\* the columns of a stored entry that the numbering reads and writes
NumberedRow(entry_number, is_follow_up) ==
    [entry_number |-> entry_number, is_follow_up |-> is_follow_up]

\* server.py lines 280-282 (ascending order, last row) and api/analyze.py
\* lines 246-249 (descending order, first row)
NextNumber(endpoint, rows) ==
    IF Len(rows) = 0 THEN 1
    ELSE IF endpoint = "flask"
         THEN OrderByEntryNumber(rows, FALSE)[Len(rows)].entry_number + 1
         ELSE OrderByEntryNumber(rows, TRUE)[1].entry_number + 1

\* the two requests
Submitters == {1, 2}

\* the entries the day has before the two requests arrive
DayStores ==
    {<<>>,
     <<NumberedRow(1, FALSE)>>,
     <<NumberedRow(1, FALSE), NumberedRow(2, TRUE)>>}

\* ------------------------------------------------------------------
\* analyze_with_gpt as a state machine: start, FULL, SIMPLIFIED,
\* FALLBACK, returned (raised: an exception left the function)
\* ------------------------------------------------------------------

VARIABLES
    a_transcript,   \* the transcript argument
    a_api_key,      \* the api_key argument (<<>>: None)
    a_env_key,      \* the module's OPENAI_KEY
    a_pc,           \* where the call stands
    a_reply1,       \* what the FULL attempt got from the model
    a_reply2,       \* what the SIMPLIFIED attempt got
    a_data,         \* the deserialised reply of the running attempt
    a_fullFail,     \* "", or the step of FULL that raised
    a_simpleFail,   \* "", or the step of SIMPLIFIED that raised
    a_err_msg,      \* err_msg of line 161
    a_calls,        \* the completion calls made so far, by prompt
    a_result,       \* the returned dict
    a_model         \* the replies the model endpoint may give in this run

avars ==
    <<a_transcript, a_api_key, a_env_key, a_pc, a_reply1, a_reply2, a_data, a_fullFail,
      a_simpleFail, a_err_msg, a_calls, a_result, a_model>>

VARIABLES
    p_doc,          \* the JSON document
    p_wrap,         \* how the text was built from it
    p_text,         \* the text handed to the parser
    p_pc,
    p_out           \* what the parse steps gave

pvars == <<p_doc, p_wrap, p_text, p_pc, p_out>>

VARIABLES
    g_transcript,   \* the transcript argument of check_missing_answer
    g_anchors,      \* its four anchors
    g_key,          \* the module's OPENAI_KEY
    g_pc,
    g_reply,        \* what the model call got
    g_calls,        \* the prompts of the completion calls made
    g_result,       \* the returned Optional[str]
    g_model         \* the replies the model may give

gvars == <<g_transcript, g_anchors, g_key, g_pc, g_reply, g_calls, g_result, g_model>>

VARIABLES
    s_endpoint,     \* "flask" (server.py) or "serverless" (api/analyze.py)
    s_env,          \* the configuration of the deployment
    s_req,          \* the request
    s_pc,
    s_entries,      \* the entries table
    s_before,       \* the entries table when the request arrived
    s_accepted,     \* len(_rate_limits[user_id])
    s_local,        \* the handler's locals
    s_writes,       \* the writes the request made on the entries table
    s_resp          \* the answer

svars == <<s_endpoint, s_env, s_req, s_pc, s_entries, s_before, s_accepted, s_local, s_writes,
           s_resp>>

\* the variables of the other components
VARIABLES
    w_model,        \* the replies the model can give
    w_entries,      \* generate_weekly_report's entries argument
    w_api_key,      \* its api_key argument
    w_env_key,      \* OPENAI_KEY of the module
    w_pc,           \* "idle", "start", "call", "parse", "normalize", "returned", "raised"
    w_metrics,      \* the aggregates of lines 44-48
    w_reply,        \* the model's reply
    w_data,         \* the deserialised value
    w_fail,         \* the step that raised inside the try block, "" for none
    w_calls,        \* number of calls made on the model
    w_result        \* the returned value

wvars ==
    <<w_model, w_entries, w_api_key, w_env_key, w_pc, w_metrics, w_reply, w_data, w_fail,
      w_calls, w_result>>

VARIABLES
    r_endpoint,     \* "flask" or "serverless"
    r_env,          \* the configuration of the weekly-report endpoint
    r_req,          \* the request
    r_pc,           \* "idle", "received", "handler", "generating", "done"
    r_rows,         \* the entries table
    r_accepted,     \* calls of the user accepted in the rate-limit window
    r_entries,      \* the handler's entries
    r_passed,       \* the entries arguments of the calls of generate_weekly_report
    r_resp          \* the answer

rvars == <<r_endpoint, r_env, r_req, r_pc, r_rows, r_accepted, r_entries, r_passed, r_resp>>

VARIABLES
    c_op,           \* "roundtrip": decrypt(encrypt(x)); "decrypt": decrypt(x)
    c_key,          \* the configuration of ENCRYPTION_KEY
    c_x,            \* the argument
    c_pc,           \* "idle", "start", "encrypted", "decrypted", "raised"
    c_enc,          \* what encrypt returned
    c_dec           \* what decrypt returned

cvars == <<c_op, c_key, c_x, c_pc, c_enc, c_dec>>

VARIABLES
    n_fn,           \* "clamp_int" or "clamp_float"
    n_value,        \* the value argument
    n_range,        \* low, high and default
    n_pc,           \* "idle", "start", "returned", "raised"
    n_out           \* the returned value

nvars == <<n_fn, n_value, n_range, n_pc, n_out>>

VARIABLES
    u_header,       \* the Authorization header of the request
    u_secret,       \* whether SUPABASE_JWT_SECRET is set
    u_endpoint,     \* "flask" (require_auth) or "serverless" (_get_user_id)
    u_pc,           \* "idle", "received", "identified", "done"
    u_user,         \* what get_user_id returned, "" for None
    u_status        \* 401, or 0 when the request went on to its handler

uvars == <<u_header, u_secret, u_endpoint, u_pc, u_user, u_status>>

VARIABLES
    e_endpoint,     \* "flask_list", "flask_get", "serverless_list", "serverless_get"
    e_env,          \* the configuration of the entries endpoint
    e_user,         \* the authenticated user of the request, "" for none
    e_id,           \* the entry id of a get request
    e_rows,         \* the entries table
    e_other,        \* the table with other entries stored by the other user
    e_pc,           \* "idle", "received", "handler", "done"
    e_outcome,      \* how the select ended
    e_resp,         \* the answer
    e_resp_other    \* the answer to the same request on e_other

evars ==
    <<e_endpoint, e_env, e_user, e_id, e_rows, e_other, e_pc, e_outcome, e_resp, e_resp_other>>

VARIABLES
    t_endpoint,     \* "flask" (check_topics) or "serverless" (handler.do_POST)
    t_key,          \* whether OPENAI_API_KEY is set
    t_body_ok,      \* whether the body is a JSON object
    t_text,         \* the "text" member of the body
    t_pc,           \* "idle", "received", "calling", "replied", "parsed", "done"
    t_reply,        \* what the model call of the request gave
    t_raw,          \* the text handed to json.loads
    t_out,          \* what json.loads made of it
    t_resp          \* the answer

tvars == <<t_endpoint, t_key, t_body_ok, t_text, t_pc, t_reply, t_raw, t_out, t_resp>>

VARIABLES
    l_clock,        \* the position of the clock in ClockTimes, 0 when idle
    l_limits,       \* _rate_limits
    l_calls,        \* per key, the calls made so far: when, and what was returned
    l_alone,        \* _rate_limits of a server that receives the requests of u1 only
    l_alone_calls   \* the calls of u1 on that server

lvars == <<l_clock, l_limits, l_calls, l_alone, l_alone_calls>>

VARIABLES
    q_endpoint,     \* "flask" or "serverless": the deployment both requests reach
    q_unique,       \* whether the table rejects a second row with the same
                    \* user, date and entry_number
    q_follow,       \* per request, its is_follow_up flag
    q_rows,         \* the stored entries of the day
    q_pc,           \* per request: "idle", "received", "read", "done"
    q_next,         \* per request, the next_number it computed
    q_status        \* per request, the status of its answer

qvars == <<q_endpoint, q_unique, q_follow, q_rows, q_pc, q_next, q_status>>

\* the components added after the submit-analysis endpoints
xvars == <<wvars, rvars, cvars, nvars, uvars, evars, tvars, lvars, qvars>>

notA == <<pvars, gvars, svars, xvars>>

notP == <<avars, gvars, svars, xvars>>

notG == <<avars, pvars, svars, xvars>>

notS == <<pvars, xvars>>

notW == <<avars, pvars, gvars, svars, rvars, cvars, nvars, uvars, evars, tvars, lvars, qvars>>

notR == <<avars, pvars, gvars, svars, cvars, nvars, uvars, evars, tvars, lvars, qvars>>

notC == <<avars, pvars, gvars, svars, wvars, rvars, nvars, uvars, evars, tvars, lvars, qvars>>

notN == <<avars, pvars, gvars, svars, wvars, rvars, cvars, uvars, evars, tvars, lvars, qvars>>

notU == <<avars, pvars, gvars, svars, wvars, rvars, cvars, nvars, evars, tvars, lvars, qvars>>

notE == <<avars, pvars, gvars, svars, wvars, rvars, cvars, nvars, uvars, tvars, lvars, qvars>>

notT == <<avars, pvars, gvars, svars, wvars, rvars, cvars, nvars, uvars, evars, lvars, qvars>>

notL == <<avars, pvars, gvars, svars, wvars, rvars, cvars, nvars, uvars, evars, tvars, qvars>>

notQ == <<avars, pvars, gvars, svars, wvars, rvars, cvars, nvars, uvars, evars, tvars, lvars>>

\* no call of analyze_with_gpt is running
AIdle ==
    /\ a_transcript = <<>>
    /\ a_api_key = <<>>
    /\ a_env_key = <<>>
    /\ a_pc = "idle"
    /\ a_reply1 = NoReply
    /\ a_reply2 = NoReply
    /\ a_data = JNull
    /\ a_fullFail = ""
    /\ a_simpleFail = ""
    /\ a_err_msg = <<>>
    /\ a_calls = <<>>
    /\ a_result = JNull

\* a call of analyze_with_gpt with any transcript and keys, any reply possible
AInit ==
    /\ a_model = Replies
    /\ a_transcript \in Transcripts
    /\ a_api_key \in ApiKeys
    /\ a_env_key \in EnvKeys
    /\ a_pc = "start"
    /\ a_reply1 = NoReply
    /\ a_reply2 = NoReply
    /\ a_data = JNull
    /\ a_fullFail = ""
    /\ a_simpleFail = ""
    /\ a_err_msg = <<>>
    /\ a_calls = <<>>
    /\ a_result = JNull

\* lines 61-69
Enter ==
    /\ a_pc = "start"
    /\ IF Len(EffectiveKey(a_api_key, a_env_key)) = 0
       THEN /\ a_result' = NoKeyResult(a_transcript)
            /\ a_pc' = "returned"
       ELSE /\ a_pc' = "FULL_call"
            /\ UNCHANGED a_result
    /\ UNCHANGED <<notA, a_model, a_transcript, a_api_key, a_env_key, a_reply1, a_reply2, a_data,
                   a_fullFail, a_simpleFail, a_err_msg, a_calls>>

\* lines 159-162: a step of the FULL state raised exc
FailFull(exc, step) ==
    /\ a_fullFail' = step
    /\ IF Catches(exc)
       THEN /\ a_err_msg' = ErrMsg(exc)
            /\ a_pc' = "SIMPLIFIED_call"
       ELSE /\ a_pc' = "raised"
            /\ UNCHANGED a_err_msg

\* a retry that, on failure, was tried again
FailSimplifiedRetry(exc, step) ==
    /\ a_simpleFail' = step
    /\ a_pc' = "SIMPLIFIED_call"

\* lines 186-187: a step of the SIMPLIFIED state raised exc
FailSimplified(exc, step) ==
    /\ a_simpleFail' = step
    /\ a_pc' = IF Catches(exc) THEN "FALLBACK" ELSE "raised"

\* lines 71-104: create the client and call the model with the full prompt
FullCall ==
    /\ a_pc = "FULL_call"
    /\ \E reply \in a_model :
        /\ a_reply1' = reply
        /\ a_calls' = IF reply.called THEN Append(a_calls, "full") ELSE a_calls
        /\ IF reply.raises
           THEN FailFull(reply.exc, IF reply.called THEN "call" ELSE "client")
           ELSE /\ a_pc' = "FULL_parse"
                /\ UNCHANGED <<a_fullFail, a_err_msg>>
    /\ UNCHANGED <<notA, a_model, a_transcript, a_api_key, a_env_key, a_reply2, a_data, a_simpleFail,
                   a_result>>

\* lines 105-120
FullParse ==
    /\ a_pc = "FULL_parse"
    /\ LET parsed == ParseFull(a_reply1.content)
       IN  IF parsed.ok
           THEN /\ a_data' = parsed.val
                /\ a_pc' = "FULL_normalize"
                /\ UNCHANGED <<a_fullFail, a_err_msg>>
           ELSE /\ FailFull(parsed.exc, "parse")
                /\ UNCHANGED a_data
    /\ UNCHANGED <<notA, a_model, a_transcript, a_api_key, a_env_key, a_reply1, a_reply2, a_simpleFail,
                   a_calls, a_result>>

\* lines 121-158
FullNormalize ==
    /\ a_pc = "FULL_normalize"
    /\ LET out == NormalizeFull(a_data)
       IN  IF out.ok
           THEN /\ a_result' = out.val
                /\ a_pc' = "returned"
                /\ UNCHANGED <<a_fullFail, a_err_msg>>
           ELSE /\ FailFull(out.exc, "normalize")
                /\ UNCHANGED a_result
    /\ UNCHANGED <<notA, a_model, a_transcript, a_api_key, a_env_key, a_reply1, a_reply2, a_data,
                   a_simpleFail, a_calls>>

\* lines 165-171: create a fresh client and call the model with the simplified prompt
SimplifiedCall ==
    /\ a_pc = "SIMPLIFIED_call"
    /\ \E reply \in a_model :
        /\ a_reply2' = reply
        /\ a_calls' = IF reply.called THEN Append(a_calls, "simplified") ELSE a_calls
        /\ IF reply.raises
           THEN FailSimplified(reply.exc, IF reply.called THEN "call" ELSE "client")
           ELSE /\ a_pc' = "SIMPLIFIED_parse"
                /\ UNCHANGED a_simpleFail
    /\ UNCHANGED <<notA, a_model, a_transcript, a_api_key, a_env_key, a_reply1, a_data, a_fullFail,
                   a_err_msg, a_result>>

\* lines 172-177
SimplifiedParse ==
    /\ a_pc = "SIMPLIFIED_parse"
    /\ LET parsed == ParseSimplified(a_reply2.content)
       IN  IF parsed.ok
           THEN /\ a_data' = parsed.val
                /\ a_pc' = "SIMPLIFIED_normalize"
                /\ UNCHANGED a_simpleFail
           ELSE /\ FailSimplified(parsed.exc, "parse")
                /\ UNCHANGED a_data
    /\ UNCHANGED <<notA, a_model, a_transcript, a_api_key, a_env_key, a_reply1, a_reply2, a_fullFail,
                   a_err_msg, a_calls, a_result>>

\* lines 178-185
SimplifiedNormalize ==
    /\ a_pc = "SIMPLIFIED_normalize"
    /\ LET out == NormalizeSimplified(a_data)
       IN  IF out.ok
           THEN /\ a_result' = out.val
                /\ a_pc' = "returned"
                /\ UNCHANGED a_simpleFail
           ELSE /\ FailSimplified(out.exc, "normalize")
                /\ UNCHANGED a_result
    /\ UNCHANGED <<notA, a_model, a_transcript, a_api_key, a_env_key, a_reply1, a_reply2, a_data,
                   a_fullFail, a_err_msg, a_calls>>

\* lines 188-194
Fallback ==
    /\ a_pc = "FALLBACK"
    /\ a_result' = FallbackResult(a_transcript, a_err_msg)
    /\ a_pc' = "returned"
    /\ UNCHANGED <<notA, a_model, a_transcript, a_api_key, a_env_key, a_reply1, a_reply2, a_data,
                   a_fullFail, a_simpleFail, a_err_msg, a_calls>>

ANext ==
    \/ Enter
    \/ FullCall
    \/ FullParse
    \/ FullNormalize
    \/ SimplifiedCall
    \/ SimplifiedParse
    \/ SimplifiedNormalize
    \/ Fallback

\* ------------------------------------------------------------------
\* The parse steps applied to a wrapped document
\* ------------------------------------------------------------------

PIdle ==
    /\ p_doc = JNull
    /\ p_wrap = [w |-> "clean", tc |-> FALSE]
    /\ p_text = <<>>
    /\ p_pc = "idle"
    /\ p_out = Raise(Exc("", <<>>))

PInit ==
    /\ p_doc \in RoundTripDocs
    /\ p_wrap \in [w : Wrappings, tc : BOOLEAN]
    /\ p_text = Wrap(p_wrap.w, Dumps(p_doc, p_wrap.tc))
    /\ p_pc = "built"
    /\ p_out = Raise(Exc("", <<>>))

\* api/analyze.py lines 105-120, api/weekly-report.py lines 110-124
Parse ==
    /\ p_pc = "built"
    /\ p_out' = ParseFull(p_text)
    /\ p_pc' = "parsed"
    /\ UNCHANGED <<notP, p_doc, p_wrap, p_text>>

PNext == Parse

\* ------------------------------------------------------------------
\* check_missing_answer as a state machine
\* ------------------------------------------------------------------

GIdle ==
    /\ g_transcript = <<>>
    /\ g_anchors = <<0, 0, 0, 0>>
    /\ g_key = <<>>
    /\ g_pc = "idle"
    /\ g_reply = NoReply
    /\ g_calls = <<>>
    /\ g_result = NoneVal

GInit ==
    /\ g_model = GateReplies
    /\ g_transcript \in GateTranscripts
    /\ g_anchors \in GateAnchors
    /\ g_key \in GateKeys
    /\ g_pc = "start"
    /\ g_reply = NoReply
    /\ g_calls = <<>>
    /\ g_result = NoneVal

\* lines 24-34
GateEnter ==
    /\ g_pc = "start"
    /\ LET early == GateEarly(g_transcript, g_key)
       IN  IF early.decided
           THEN /\ g_result' = early.result
                /\ g_pc' = "returned"
           ELSE /\ g_pc' = "call"
                /\ UNCHANGED g_result
    /\ UNCHANGED <<notG, g_model, g_transcript, g_anchors, g_key, g_reply, g_calls>>

\* lines 35-56
GateCall ==
    /\ g_pc = "call"
    /\ \E reply \in g_model :
        /\ g_reply' = reply
        /\ g_calls' = IF reply.called
                      THEN Append(g_calls, GatePrompt(g_transcript, g_anchors))
                      ELSE g_calls
        /\ IF reply.raises /\ ~GateCatches(reply.exc)
           THEN /\ g_pc' = "raised"
                /\ UNCHANGED g_result
           ELSE /\ g_result' = GateFromReply(reply)
                /\ g_pc' = "returned"
    /\ UNCHANGED <<notG, g_model, g_transcript, g_anchors, g_key>>

GNext == GateEnter \/ GateCall

\* ------------------------------------------------------------------
\* generate_weekly_report as a state machine
\* ------------------------------------------------------------------

\* no call of generate_weekly_report is running
WIdle ==
    /\ w_entries = <<>>
    /\ w_api_key = <<>>
    /\ w_env_key = <<>>
    /\ w_pc = "idle"
    /\ w_metrics = JNull
    /\ w_reply = NoReply
    /\ w_data = JNull
    /\ w_fail = ""
    /\ w_calls = 0
    /\ w_result = JNull

\* a call of generate_weekly_report with any entries and keys
WInit ==
    /\ w_model = WeeklyReplies
    /\ w_entries \in WeeklyEntryLists
    /\ w_api_key \in ApiKeys
    /\ w_env_key \in EnvKeys
    /\ w_pc = "start"
    /\ w_metrics = JNull
    /\ w_reply = NoReply
    /\ w_data = JNull
    /\ w_fail = ""
    /\ w_calls = 0
    /\ w_result = JNull

\* lines 39-48: the key check, then the aggregates; the division by
\* len(entries) is outside the try block
WeeklyEnter ==
    /\ w_pc = "start"
    /\ IF Len(EffectiveKey(w_api_key, w_env_key)) = 0
       THEN /\ w_result' = WeeklyNoKeyResult
            /\ w_pc' = "returned"
            /\ UNCHANGED w_metrics
       ELSE IF Len(w_entries) = 0
       THEN /\ w_pc' = "raised"
            /\ UNCHANGED <<w_result, w_metrics>>
       ELSE /\ w_metrics' = WeeklyMetrics(w_entries)
            /\ w_pc' = "call"
            /\ UNCHANGED w_result
    /\ UNCHANGED <<notW, w_model, w_entries, w_api_key, w_env_key, w_reply, w_data, w_fail,
                   w_calls>>

\* lines 154-166: a step of the try block raised exc
WeeklyFail(exc, step) ==
    /\ w_fail' = step
    /\ IF WeeklyCatches(exc)
       THEN /\ w_result' = WeeklyFailResult(exc, w_metrics)
            /\ w_pc' = "returned"
       ELSE /\ w_pc' = "raised"
            /\ UNCHANGED w_result

\* lines 101-109
WeeklyCall ==
    /\ w_pc = "call"
    /\ \E reply \in w_model :
        /\ w_reply' = reply
        /\ w_calls' = IF reply.called THEN w_calls + 1 ELSE w_calls
        /\ IF reply.raises
           THEN WeeklyFail(reply.exc, IF reply.called THEN "call" ELSE "client")
           ELSE /\ w_pc' = "parse"
                /\ UNCHANGED <<w_fail, w_result>>
    /\ UNCHANGED <<notW, w_model, w_entries, w_api_key, w_env_key, w_metrics, w_data>>

\* lines 110-124
WeeklyParse ==
    /\ w_pc = "parse"
    /\ LET parsed == ParseFull(w_reply.content)
       IN  IF parsed.ok
           THEN /\ w_data' = parsed.val
                /\ w_pc' = "normalize"
                /\ UNCHANGED <<w_fail, w_result>>
           ELSE /\ WeeklyFail(parsed.exc, "parse")
                /\ UNCHANGED w_data
    /\ UNCHANGED <<notW, w_model, w_entries, w_api_key, w_env_key, w_metrics, w_reply, w_calls>>

\* lines 126-153
WeeklyNormalize ==
    /\ w_pc = "normalize"
    /\ LET normalized == NormalizeWeekly(w_data, w_metrics)
       IN  IF normalized.ok
           THEN /\ w_result' = normalized.val
                /\ w_pc' = "returned"
                /\ UNCHANGED w_fail
           ELSE WeeklyFail(normalized.exc, "normalize")
    /\ UNCHANGED <<notW, w_model, w_entries, w_api_key, w_env_key, w_metrics, w_reply, w_data,
                   w_calls>>

WNext == WeeklyEnter \/ WeeklyCall \/ WeeklyParse \/ WeeklyNormalize

\* ------------------------------------------------------------------
\* The submit-analysis endpoints: server.py analyze, api/analyze.py do_POST
\* ------------------------------------------------------------------

NoLocals ==
    [transcript |-> <<>>, anchors |-> <<0, 0, 0, 0>>, existing |-> <<>>, next_number |-> 0,
     skip_analysis |-> FALSE, result |-> JNull]

SIdle ==
    /\ s_endpoint = ""
    /\ s_env = Environment(FALSE, <<>>, FALSE, FALSE, 0)
    /\ s_req = Request(FALSE, FALSE, FALSE, <<>>, {})
    /\ s_pc = "idle"
    /\ s_entries = <<>>
    /\ s_before = <<>>
    /\ s_accepted = 0
    /\ s_local = NoLocals
    /\ s_writes = <<>>
    /\ s_resp = NoResponse

SInit ==
    /\ s_endpoint \in {"flask", "serverless"}
    /\ s_env \in Environments
    /\ s_req \in (IF ~s_env.supabase \/ s_env.accepted = RATE_LIMIT_MAX
                  THEN {Request(TRUE, TRUE, TRUE, T_tired, {})}
                  ELSE RejectedRequests
                       \cup (IF s_endpoint = "flask" THEN FlaskRequests ELSE ServerlessRequests))
    /\ s_pc = "received"
    /\ s_entries \in Stores(s_env.multi, s_env.fkey)
    /\ s_before = s_entries
    /\ s_accepted = s_env.accepted
    /\ s_local = NoLocals
    /\ s_writes = <<>>
    /\ s_resp = NoResponse

\* return jsonify(...), status / self._send(status, ...)
Answer(status, body) ==
    /\ s_resp' = Response(status, body)
    /\ s_pc' = "done"

\* result = analyze_with_gpt(transcript, ..., api_key=api_key)
CallAnalyze(transcript, api_key) ==
    /\ a_transcript' = transcript
    /\ a_api_key' = api_key
    /\ a_env_key' = s_env.key
    /\ a_pc' = "start"
    /\ s_pc' = "analyzing"
    /\ UNCHANGED <<a_model, a_reply1, a_reply2, a_data, a_fullFail, a_simpleFail, a_err_msg,
                   a_calls, a_result>>

\* server.py lines 66-76: require_auth, with check_rate_limit (lines 55-61)
FlaskAuth ==
    /\ s_endpoint = "flask"
    /\ s_pc = "received"
    /\ IF ~s_req.authed
       THEN /\ Answer(401, "Authentication required")
            /\ UNCHANGED s_accepted
       ELSE IF s_accepted >= RATE_LIMIT_MAX
       THEN /\ Answer(429, "Too many requests")
            /\ UNCHANGED s_accepted
       ELSE /\ s_accepted' = s_accepted + 1
            /\ s_pc' = "handler"
            /\ UNCHANGED s_resp
    /\ UNCHANGED <<notS, avars, gvars, s_endpoint, s_env, s_req, s_entries, s_before, s_local,
                   s_writes>>

\* server.py lines 258-322, up to the call of analyze_with_gpt
FlaskPrepare ==
    /\ s_endpoint = "flask"
    /\ s_pc = "handler"
    /\ IF ~s_env.supabase
       THEN /\ Answer(503, "Server not configured")
            /\ UNCHANGED <<s_local, avars>>
       ELSE IF ~s_req.json_ok \/ ~s_req.date_ok
       THEN /\ Answer(400, "Valid date required")
            /\ UNCHANGED <<s_local, avars>>
       ELSE LET transcript == SanitizeText(s_req.transcript, MaxTranscriptLen)
                existing == IF s_env.multi THEN OrderByEntryNumber(s_entries, FALSE)
                            ELSE s_entries
                next_number == IF s_env.multi
                               THEN (IF Len(existing) > 0
                                     THEN existing[Len(existing)].entry_number + 1 ELSE 1)
                               ELSE Len(existing) + 1
                anchors == IF s_req.is_follow_up /\ Len(existing) > 0
                           THEN FirstOr(existing[1], s_req.anchors)
                           ELSE s_req.anchors
                skip_analysis == IF s_req.is_follow_up THEN ~s_req.is_last_reflection
                                 ELSE s_req.plan_more_reflections
                locals == [transcript |-> transcript, anchors |-> anchors,
                           existing |-> existing, next_number |-> next_number,
                           skip_analysis |-> skip_analysis, result |-> JNull]
            IN  IF skip_analysis
                THEN /\ s_local' = [locals EXCEPT !.result = PendingAnalysisResult]
                     /\ s_pc' = "store"
                     /\ UNCHANGED <<s_resp, avars>>
                ELSE /\ s_local' = locals
                     /\ CallAnalyze(IF s_req.is_follow_up /\ s_req.is_last_reflection
                                       /\ Len(existing) > 0
                                    THEN CombinedTranscript(existing, transcript, s_env.fkey)
                                    ELSE transcript,
                                    Strip(s_env.key))
                     /\ UNCHANGED s_resp
    /\ UNCHANGED <<notS, gvars, s_endpoint, s_env, s_req, s_entries, s_before, s_accepted,
                   s_writes>>

\* server.py lines 315-317 and 320-322
FlaskAfterAnalyze ==
    /\ s_endpoint = "flask"
    /\ s_pc = "analyzing"
    /\ a_pc = "returned"
    /\ IF IsSentinel(a_result)
       THEN /\ Answer(503, "Analysis failed")
            /\ UNCHANGED s_local
       ELSE /\ s_local' = [s_local EXCEPT !.result = a_result]
            /\ s_pc' = "store"
            /\ UNCHANGED s_resp
    /\ UNCHANGED <<notS, avars, gvars, s_endpoint, s_env, s_req, s_entries, s_before,
                   s_accepted, s_writes>>

\* server.py lines 324-368: the insert succeeds, raises a duplicate-key
\* error or raises another error; the updates of the earlier entries may
\* raise after updated of them were made
FlaskStore ==
    /\ s_endpoint = "flask"
    /\ s_pc = "store"
    /\ LET result == s_local.result
           existing == s_local.existing
           columns == AnalysisColumns(result, s_env.fkey)
           row == EntryRow(NextId(s_entries),
                           IF s_env.multi THEN s_local.next_number ELSE 0,
                           s_env.multi /\ s_req.is_follow_up /\ s_local.next_number > 1,
                           s_local.anchors, Encrypt(s_local.transcript, s_env.fkey), columns)
           final == s_req.is_follow_up /\ s_req.is_last_reflection /\ Len(existing) > 0
                    /\ ~s_local.skip_analysis
       IN  IF EncryptRaises(Get(result, K_reflection_summary, JStr(<<>>)), s_env.fkey)
           THEN /\ Answer(500, "Internal Server Error")
                /\ UNCHANGED <<s_entries, s_writes>>
           ELSE \E outcome \in {"ok", "duplicate", "error"} :
                \E updated \in 0..(IF final THEN Len(existing) ELSE 0) :
                   CASE outcome = "ok" ->
                        /\ s_entries' = UpdateFirst(Append(s_entries, row), existing, updated,
                                                    columns)
                        /\ s_writes' = s_writes \o <<InsertOf(row)>>
                                       \o [k \in 1..updated |-> UpdateOf(existing[k].id)]
                        /\ IF final /\ updated < Len(existing)
                           THEN Answer(500, "update failed")
                           ELSE Answer(200, IF s_local.skip_analysis THEN "skipped_analysis"
                                            ELSE "entry_id")
                     [] outcome = "duplicate" ->
                        /\ updated = 0
                        /\ IF ~s_env.multi /\ Len(existing) > 0
                           THEN /\ s_entries' = OverwriteRow(s_entries, existing[1].id, row)
                                /\ s_writes' = Append(s_writes, UpdateOf(existing[1].id))
                                /\ Answer(200, "overwritten")
                           ELSE /\ Answer(400, "Run supabase-multi-entries.sql")
                                /\ UNCHANGED <<s_entries, s_writes>>
                     [] outcome = "error" ->
                        /\ updated = 0
                        /\ Answer(500, "insert failed")
                        /\ UNCHANGED <<s_entries, s_writes>>
    /\ UNCHANGED <<notS, avars, gvars, s_endpoint, s_env, s_req, s_before, s_accepted, s_local>>

\* api/analyze.py lines 203-234, up to the call of check_missing_answer
\* or, when it is skipped, of analyze_with_gpt (line 239)
ServerlessPrepare ==
    /\ s_endpoint = "serverless"
    /\ s_pc = "received"
    /\ IF ~s_req.authed
       THEN /\ Answer(401, "Authentication required")
            /\ UNCHANGED <<s_local, avars, gvars>>
       ELSE IF ~s_req.json_ok
       THEN /\ Answer(400, "Invalid JSON")
            /\ UNCHANGED <<s_local, avars, gvars>>
       ELSE IF ~s_env.supabase
       THEN /\ Answer(503, "Server not configured")
            /\ UNCHANGED <<s_local, avars, gvars>>
       ELSE IF ~s_req.date_ok
       THEN /\ Answer(400, "Valid date required")
            /\ UNCHANGED <<s_local, avars, gvars>>
       ELSE LET transcript == SanitizeText(s_req.transcript, MaxTranscriptLen)
            IN  /\ s_local' = [NoLocals EXCEPT !.transcript = transcript,
                                               !.anchors = s_req.anchors]
                /\ UNCHANGED s_resp
                /\ IF ~s_req.skip_missing_check /\ ~s_req.overwrite
                   THEN /\ g_transcript' = transcript
                        /\ g_anchors' = s_req.anchors
                        /\ g_key' = s_env.key
                        /\ g_pc' = "start"
                        /\ s_pc' = "gating"
                        /\ UNCHANGED <<g_reply, g_calls, g_result, g_model, avars>>
                   ELSE /\ CallAnalyze(transcript, <<>>)
                        /\ UNCHANGED gvars
    /\ UNCHANGED <<notS, s_endpoint, s_env, s_req, s_entries, s_before, s_accepted, s_writes>>

\* api/analyze.py lines 234-239
ServerlessAfterGate ==
    /\ s_endpoint = "serverless"
    /\ s_pc = "gating"
    /\ g_pc = "returned"
    /\ IF g_result.some /\ Len(g_result.val) > 0
       THEN /\ Answer(200, "needs_answer")
            /\ UNCHANGED avars
       ELSE /\ CallAnalyze(s_local.transcript, <<>>)
            /\ UNCHANGED s_resp
    /\ UNCHANGED <<notS, gvars, s_endpoint, s_env, s_req, s_entries, s_before, s_accepted,
                   s_local, s_writes>>

\* api/analyze.py lines 241-243
ServerlessAfterAnalyze ==
    /\ s_endpoint = "serverless"
    /\ s_pc = "analyzing"
    /\ a_pc = "returned"
    /\ IF IsSentinel(a_result)
       THEN /\ Answer(503, "Analysis failed")
            /\ UNCHANGED s_local
       ELSE /\ s_local' = [s_local EXCEPT !.result = a_result]
            /\ s_pc' = "store"
            /\ UNCHANGED s_resp
    /\ UNCHANGED <<notS, avars, gvars, s_endpoint, s_env, s_req, s_entries, s_before,
                   s_accepted, s_writes>>

\* api/analyze.py lines 245-279: the select raises when the table has no
\* entry_number column, and the handler ends without an answer
ServerlessStore ==
    /\ s_endpoint = "serverless"
    /\ s_pc = "store"
    /\ LET result == s_local.result
           existing == OrderByEntryNumber(s_entries, TRUE)
           next_number == IF Len(existing) > 0 THEN existing[1].entry_number + 1 ELSE 1
           anchors == IF s_req.is_follow_up /\ Len(existing) > 0
                      THEN FirstOr(existing[Len(existing)], s_local.anchors)
                      ELSE s_local.anchors
           row == EntryRow(NextId(s_entries), next_number,
                           s_req.is_follow_up /\ next_number > 1,
                           anchors, Encrypt(s_local.transcript, s_env.fkey),
                           AnalysisColumns(result, s_env.fkey))
       IN  IF ~s_env.multi
              \/ EncryptRaises(Get(result, K_reflection_summary, JStr(<<>>)), s_env.fkey)
           THEN /\ Answer(0, "handler raised")
                /\ UNCHANGED <<s_entries, s_writes, s_local>>
           ELSE /\ s_local' = [s_local EXCEPT !.existing = existing,
                                              !.next_number = next_number,
                                              !.anchors = anchors]
                /\ \E outcome \in {"ok", "error"} :
                      IF outcome = "ok"
                      THEN /\ s_entries' = Append(s_entries, row)
                           /\ s_writes' = Append(s_writes, InsertOf(row))
                           /\ Answer(200, "entry_id")
                      ELSE /\ Answer(500, "insert failed")
                           /\ UNCHANGED <<s_entries, s_writes>>
    /\ UNCHANGED <<notS, avars, gvars, s_endpoint, s_env, s_req, s_before, s_accepted>>

SNext ==
    \/ FlaskAuth
    \/ FlaskPrepare
    \/ FlaskAfterAnalyze
    \/ FlaskStore
    \/ ServerlessPrepare
    \/ ServerlessAfterGate
    \/ ServerlessAfterAnalyze
    \/ ServerlessStore

\* ------------------------------------------------------------------
\* The weekly-report endpoints as a state machine
\* ------------------------------------------------------------------

RIdle ==
    /\ r_endpoint = ""
    /\ r_env = WeeklyEnvironment(FALSE, <<>>, 0)
    /\ r_req = WeeklyRequest("", "invalid")
    /\ r_pc = "idle"
    /\ r_rows = <<>>
    /\ r_accepted = 0
    /\ r_entries = <<>>
    /\ r_passed = <<>>
    /\ r_resp = NoWeeklyResponse

RInit ==
    /\ r_endpoint \in {"flask", "serverless"}
    /\ r_env \in WeeklyEnvironments
    /\ r_req \in WeeklyRequests
    /\ r_pc = "received"
    /\ r_rows \in WeeklyStores
    /\ r_accepted = r_env.accepted
    /\ r_entries = <<>>
    /\ r_passed = <<>>
    /\ r_resp = NoWeeklyResponse

\* return jsonify(...), status / self._send(status, ...)
WeeklyAnswer(resp) ==
    /\ r_resp' = resp
    /\ r_pc' = "done"

\* report = generate_weekly_report(entries, api_key=OPENAI_KEY)
CallGenerate(entries) ==
    /\ r_passed' = Append(r_passed, entries)
    /\ w_entries' = entries
    /\ w_api_key' = r_env.key
    /\ w_env_key' = r_env.key
    /\ w_pc' = "start"
    /\ r_pc' = "generating"
    /\ UNCHANGED <<w_model, w_metrics, w_reply, w_data, w_fail, w_calls, w_result, r_resp>>

\* server.py lines 66-76: require_auth, with check_rate_limit (lines 55-61)
WeeklyFlaskAuth ==
    /\ r_endpoint = "flask"
    /\ r_pc = "received"
    /\ IF r_req.user_id = ""
       THEN /\ WeeklyAnswer(ErrorResponse(401))
            /\ UNCHANGED r_accepted
       ELSE IF r_accepted >= RATE_LIMIT_MAX
       THEN /\ WeeklyAnswer(ErrorResponse(429))
            /\ UNCHANGED r_accepted
       ELSE /\ r_accepted' = r_accepted + 1
            /\ r_pc' = "handler"
            /\ UNCHANGED r_resp
    /\ UNCHANGED <<notR, wvars, r_endpoint, r_env, r_req, r_rows, r_entries, r_passed>>

\* lines 204-210 of api/weekly-report.py, lines 421-426 of server.py: the
\* gate on the distinct dates, then the call with entries[:14]
GateOrGenerate(entries) ==
    IF CountDates(entries) < WeeklyNeeded
    THEN /\ WeeklyAnswer(LockedResponse(CountDates(entries)))
         /\ UNCHANGED <<wvars, r_passed>>
    ELSE CallGenerate(Take(entries, WeeklyMaxEntries))

\* server.py lines 374-426, up to the call of generate_weekly_report; the
\* select of line 412 returns the rows or raises
WeeklyFlaskHandle ==
    /\ r_endpoint = "flask"
    /\ r_pc = "handler"
    /\ IF r_req.body = "list"
       THEN /\ WeeklyAnswer(ErrorResponse(500))
            /\ UNCHANGED <<wvars, r_entries, r_passed>>
       ELSE IF r_req.body = "demo"
       THEN /\ CallGenerate(DemoEntries)
            /\ UNCHANGED r_entries
       ELSE IF ~r_env.supabase
       THEN /\ WeeklyAnswer(ErrorResponse(503))
            /\ UNCHANGED <<wvars, r_entries, r_passed>>
       ELSE \E fetched \in BOOLEAN :
               IF ~fetched
               THEN /\ WeeklyAnswer(ErrorResponse(500))
                    /\ UNCHANGED <<wvars, r_entries, r_passed>>
               ELSE LET entries == FetchRecent(r_rows, r_req.user_id)
                    IN  /\ r_entries' = entries
                        /\ GateOrGenerate(entries)
    /\ UNCHANGED <<notR, r_endpoint, r_env, r_req, r_rows, r_accepted>>

\* server.py lines 403-405 and 427-430
WeeklyFlaskAfter ==
    /\ r_endpoint = "flask"
    /\ r_pc = "generating"
    /\ w_pc = "returned"
    /\ WeeklyAnswer(WeeklyResponse(IF ReportFailed(w_result) THEN 503 ELSE 200, "report", 0,
                                   w_result, <<>>))
    /\ UNCHANGED <<notR, wvars, r_endpoint, r_env, r_req, r_rows, r_accepted, r_entries, r_passed>>

\* api/weekly-report.py lines 175-210, up to the call of
\* generate_weekly_report; the select of line 193 is outside any try
\* block, and the handler ends without an answer when it raises
WeeklyServerlessHandle ==
    /\ r_endpoint = "serverless"
    /\ r_pc = "received"
    /\ IF r_req.user_id = ""
       THEN /\ WeeklyAnswer(ErrorResponse(401))
            /\ UNCHANGED <<wvars, r_entries, r_passed>>
       ELSE IF r_req.body = "invalid"
       THEN /\ WeeklyAnswer(ErrorResponse(400))
            /\ UNCHANGED <<wvars, r_entries, r_passed>>
       ELSE IF ~r_env.supabase
       THEN /\ WeeklyAnswer(ErrorResponse(503))
            /\ UNCHANGED <<wvars, r_entries, r_passed>>
       ELSE \E fetched \in BOOLEAN :
               IF ~fetched
               THEN /\ WeeklyAnswer(ErrorResponse(0))
                    /\ UNCHANGED <<wvars, r_entries, r_passed>>
               ELSE LET entries == FetchRecent(r_rows, r_req.user_id)
                    IN  /\ r_entries' = entries
                        /\ GateOrGenerate(entries)
    /\ UNCHANGED <<notR, r_endpoint, r_env, r_req, r_rows, r_accepted>>

\* api/weekly-report.py lines 211-221
WeeklyServerlessAfter ==
    /\ r_endpoint = "serverless"
    /\ r_pc = "generating"
    /\ w_pc = "returned"
    /\ IF ReportFailed(w_result)
       THEN WeeklyAnswer(WeeklyResponse(503, "report", 0, w_result, <<>>))
       ELSE WeeklyAnswer(WeeklyResponse(200, "report", 0, w_result,
                                        ByDate(Take(r_entries, WeeklyMaxEntries))))
    /\ UNCHANGED <<notR, wvars, r_endpoint, r_env, r_req, r_rows, r_accepted, r_entries, r_passed>>

RNext ==
    \/ WeeklyFlaskAuth
    \/ WeeklyFlaskHandle
    \/ WeeklyFlaskAfter
    \/ WeeklyServerlessHandle
    \/ WeeklyServerlessAfter

\* ------------------------------------------------------------------
\* encrypt and decrypt as a state machine
\* ------------------------------------------------------------------

CIdle ==
    /\ c_op = ""
    /\ c_key = "none"
    /\ c_x = NoneVal
    /\ c_pc = "idle"
    /\ c_enc = NoneVal
    /\ c_dec = NoneVal

CInit ==
    /\ c_op \in {"roundtrip", "decrypt"}
    /\ c_key \in KeyConfigs
    /\ c_x \in CryptoInputs
    /\ c_pc = "start"
    /\ c_enc = NoneVal
    /\ c_dec = NoneVal

\* enc = encrypt(x)
CryptoEncrypt ==
    /\ c_op = "roundtrip"
    /\ c_pc = "start"
    /\ LET r == EncryptCall(c_x, c_key)
       IN  IF r.ok
           THEN /\ c_enc' = r.val
                /\ c_pc' = "encrypted"
           ELSE /\ c_pc' = "raised"
                /\ UNCHANGED c_enc
    /\ UNCHANGED <<notC, c_op, c_key, c_x, c_dec>>

\* decrypt(enc), or decrypt(x) on a stored text
CryptoDecrypt ==
    /\ \/ c_op = "roundtrip" /\ c_pc = "encrypted"
       \/ c_op = "decrypt" /\ c_pc = "start"
    /\ LET r == DecryptCall(IF c_op = "roundtrip" THEN c_enc ELSE c_x, c_key)
       IN  IF r.ok
           THEN /\ c_dec' = r.val
                /\ c_pc' = "decrypted"
           ELSE /\ c_pc' = "raised"
                /\ UNCHANGED c_dec
    /\ UNCHANGED <<notC, c_op, c_key, c_x, c_enc>>

CNext == CryptoEncrypt \/ CryptoDecrypt

\* ------------------------------------------------------------------
\* clamp_int and clamp_float as a state machine
\* ------------------------------------------------------------------

NIdle ==
    /\ n_fn = ""
    /\ n_value = JNull
    /\ n_range = [low |-> JNum(0), high |-> JNum(0), default |-> Null]
    /\ n_pc = "idle"
    /\ n_out = JNull

NInit ==
    /\ n_fn \in {"clamp_int", "clamp_float"}
    /\ n_value \in ClampValues
    /\ n_range \in ClampRanges
    /\ n_pc = "start"
    /\ n_out = JNull

\* clamp_int(value, low, high, default) or clamp_float(...)
ClampCall ==
    /\ n_pc = "start"
    /\ LET r == Clamp(n_fn, n_value, n_range.low, n_range.high, n_range.default)
       IN  IF r.ok
           THEN /\ n_out' = r.val
                /\ n_pc' = "returned"
           ELSE /\ n_pc' = "raised"
                /\ UNCHANGED n_out
    /\ UNCHANGED <<notN, n_fn, n_value, n_range>>

NNext == ClampCall

\* ------------------------------------------------------------------
\* Authentication of a request as a state machine
\* ------------------------------------------------------------------

UIdle ==
    /\ u_header = Header("", NoToken)
    /\ u_secret = FALSE
    /\ u_endpoint = ""
    /\ u_pc = "idle"
    /\ u_user = ""
    /\ u_status = 0

UInit ==
    /\ u_header \in Headers
    /\ u_secret \in BOOLEAN
    /\ u_endpoint \in {"flask", "serverless"}
    /\ u_pc = "received"
    /\ u_user = ""
    /\ u_status = 0

\* user_id = get_user_id(request.headers.get("Authorization", ""))
Identify ==
    /\ u_pc = "received"
    /\ u_user' = GetUserId(u_header, u_secret)
    /\ u_pc' = "identified"
    /\ UNCHANGED <<notU, u_header, u_secret, u_endpoint, u_status>>

\* server.py lines 70-71, and the handlers' `if not user_id` (for one,
\* api/weekly-report.py lines 175-178)
Admit ==
    /\ u_pc = "identified"
    /\ u_status' = IF u_user = "" THEN 401 ELSE 0
    /\ u_pc' = "done"
    /\ UNCHANGED <<notU, u_header, u_secret, u_endpoint, u_user>>

UNext == Identify \/ Admit

\* ------------------------------------------------------------------
\* The entries endpoints as a state machine
\* ------------------------------------------------------------------

EIdle ==
    /\ e_endpoint = ""
    /\ e_env = EntriesEnvironment(FALSE, FALSE, FALSE)
    /\ e_user = ""
    /\ e_id = ""
    /\ e_rows = <<>>
    /\ e_other = <<>>
    /\ e_pc = "idle"
    /\ e_outcome = ""
    /\ e_resp = NoEntriesResponse
    /\ e_resp_other = NoEntriesResponse

\* a request of u1 or of nobody, on two tables that hold the same
\* entries of u1
EInit ==
    /\ e_endpoint \in {"flask_list", "flask_get", "serverless_list", "serverless_get"}
    /\ e_env \in EntriesEnvironments
    /\ e_user \in {"", "u1"}
    /\ e_id \in (IF e_endpoint \in {"flask_get", "serverless_get"} THEN RequestedIds ELSE {""})
    /\ \E own \in OwnRows :
          /\ e_rows \in {own \o other : other \in OtherRows}
          /\ e_other \in {own \o other : other \in OtherRows}
    /\ e_pc = "received"
    /\ e_outcome = ""
    /\ e_resp = NoEntriesResponse
    /\ e_resp_other = NoEntriesResponse

\* the same answer on both tables
AnswerBoth(resp) ==
    /\ e_resp' = resp
    /\ e_resp_other' = resp
    /\ e_pc' = "done"

\* server.py lines 66-76: require_auth
EntriesFlaskAuth ==
    /\ e_endpoint \in {"flask_list", "flask_get"}
    /\ e_pc = "received"
    /\ IF e_user = "" THEN AnswerBoth(EntriesResponse(401, <<>>, FALSE))
       ELSE IF e_env.limited THEN AnswerBoth(EntriesResponse(429, <<>>, FALSE))
       ELSE /\ e_pc' = "handler"
            /\ UNCHANGED <<e_resp, e_resp_other>>
    /\ UNCHANGED <<notE, e_endpoint, e_env, e_user, e_id, e_rows, e_other, e_outcome>>

\* server.py lines 149-168
FlaskListEntries ==
    /\ e_endpoint = "flask_list"
    /\ e_pc = "handler"
    /\ IF ~e_env.supabase
       THEN /\ AnswerBoth(EntriesResponse(503, <<>>, FALSE))
            /\ UNCHANGED e_outcome
       ELSE \E outcome \in {"ok", "no_column", "error"} :
               /\ e_outcome' = outcome
               /\ e_resp' = ListEntries(e_rows, e_user, e_env.fkey, outcome, TRUE)
               /\ e_resp_other' = ListEntries(e_other, e_user, e_env.fkey, outcome, TRUE)
               /\ e_pc' = "done"
    /\ UNCHANGED <<notE, e_endpoint, e_env, e_user, e_id, e_rows, e_other>>

\* server.py lines 202-221
FlaskGetEntry ==
    /\ e_endpoint = "flask_get"
    /\ e_pc = "handler"
    /\ IF ~ValidUuid(e_id)
       THEN /\ AnswerBoth(EntriesResponse(400, <<>>, FALSE))
            /\ UNCHANGED e_outcome
       ELSE IF ~e_env.supabase
       THEN /\ AnswerBoth(EntriesResponse(503, <<>>, FALSE))
            /\ UNCHANGED e_outcome
       ELSE \E outcome \in (IF Len(RowsById(e_rows, e_id, e_user)) > 0
                            THEN {"ok", "error"} ELSE {"none", "raises", "error"}) :
               /\ e_outcome' = outcome
               /\ e_resp' = GetEntryFlask(e_rows, e_id, e_user, e_env.fkey, outcome)
               /\ e_resp_other' = GetEntryFlask(e_other, e_id, e_user, e_env.fkey, outcome)
               /\ e_pc' = "done"
    /\ UNCHANGED <<notE, e_endpoint, e_env, e_user, e_id, e_rows, e_other>>

\* api/entries/index.py lines 25-50
ServerlessListEntries ==
    /\ e_endpoint = "serverless_list"
    /\ e_pc = "received"
    /\ IF e_user = ""
       THEN /\ AnswerBoth(EntriesResponse(401, <<>>, FALSE))
            /\ UNCHANGED e_outcome
       ELSE IF ~e_env.supabase
       THEN /\ AnswerBoth(EntriesResponse(503, <<>>, FALSE))
            /\ UNCHANGED e_outcome
       ELSE \E outcome \in {"ok", "no_column", "error"} :
               /\ e_outcome' = outcome
               /\ e_resp' = ListEntries(e_rows, e_user, e_env.fkey, outcome, FALSE)
               /\ e_resp_other' = ListEntries(e_other, e_user, e_env.fkey, outcome, FALSE)
               /\ e_pc' = "done"
    /\ UNCHANGED <<notE, e_endpoint, e_env, e_user, e_id, e_rows, e_other>>

\* api/entries/[id].py lines 33-83
ServerlessGetEntry ==
    /\ e_endpoint = "serverless_get"
    /\ e_pc = "received"
    /\ IF ~ValidUuid(e_id)
       THEN /\ AnswerBoth(EntriesResponse(400, <<>>, FALSE))
            /\ UNCHANGED e_outcome
       ELSE IF e_user = ""
       THEN /\ AnswerBoth(EntriesResponse(401, <<>>, FALSE))
            /\ UNCHANGED e_outcome
       ELSE IF ~e_env.supabase
       THEN /\ AnswerBoth(EntriesResponse(503, <<>>, FALSE))
            /\ UNCHANGED e_outcome
       ELSE \E outcome \in (IF Len(RowsById(e_rows, e_id, e_user)) > 0
                            THEN {"ok", "error"} ELSE {"raises", "error"}),
                  same_day_ok \in BOOLEAN :
               /\ e_outcome' = outcome
               /\ e_resp' = GetEntryServerless(e_rows, e_id, e_user, e_env.fkey, outcome,
                                               same_day_ok)
               /\ e_resp_other' = GetEntryServerless(e_other, e_id, e_user, e_env.fkey, outcome,
                                                     same_day_ok)
               /\ e_pc' = "done"
    /\ UNCHANGED <<notE, e_endpoint, e_env, e_user, e_id, e_rows, e_other>>

ENext ==
    \/ EntriesFlaskAuth
    \/ FlaskListEntries
    \/ FlaskGetEntry
    \/ ServerlessListEntries
    \/ ServerlessGetEntry

\* ------------------------------------------------------------------
\* A check-topics request as a state machine
\* ------------------------------------------------------------------

NoTopicsAnswer == TopicsAnswer(0, <<>>, Null, 0)

TIdle ==
    /\ t_endpoint = ""
    /\ t_key = FALSE
    /\ t_body_ok = FALSE
    /\ t_text = <<>>
    /\ t_pc = "idle"
    /\ t_reply = NoReply
    /\ t_raw = <<>>
    /\ t_out = ParseFail
    /\ t_resp = NoTopicsAnswer

TInit ==
    /\ t_endpoint \in {"flask", "serverless"}
    /\ t_key \in BOOLEAN
    /\ t_body_ok \in BOOLEAN
    /\ t_text \in TopicTexts
    /\ t_pc = "received"
    /\ t_reply = NoReply
    /\ t_raw = <<>>
    /\ t_out = ParseFail
    /\ t_resp = NoTopicsAnswer

\* server.py: check_topics, POST, up to the model call
FlaskCheckTopics ==
    /\ t_pc = "received"
    /\ t_endpoint = "flask"
    /\ LET early == FlaskTopicsEarly(t_body_ok, t_text, t_key)
       IN  IF early = Null
           THEN /\ t_pc' = "calling"
                /\ UNCHANGED t_resp
           ELSE /\ t_pc' = "done"
                /\ t_resp' = early[1]
    /\ UNCHANGED <<notT, t_endpoint, t_key, t_body_ok, t_text, t_reply, t_raw, t_out>>

\* api/check-topics.py: handler.do_POST, up to the model call
ServerlessCheckTopics ==
    /\ t_pc = "received"
    /\ t_endpoint = "serverless"
    /\ LET early == ServerlessTopicsEarly(t_body_ok, t_text, t_key)
       IN  IF early = Null
           THEN /\ t_pc' = "calling"
                /\ UNCHANGED t_resp
           ELSE /\ t_pc' = "done"
                /\ t_resp' = early[1]
    /\ UNCHANGED <<notT, t_endpoint, t_key, t_body_ok, t_text, t_reply, t_raw, t_out>>

\* the model call: it raises, or its content is stripped of a fence
TopicsModelReply ==
    /\ t_pc = "calling"
    /\ \E reply \in TopicReplies :
          /\ t_reply' = reply
          /\ t_raw' = IF reply.raises THEN <<>>
                      ELSE IF t_endpoint = "flask" THEN FlaskTopicsRaw(reply.content)
                      ELSE TopicsRaw(reply.content)
    /\ t_pc' = "replied"
    /\ UNCHANGED <<notT, t_endpoint, t_key, t_body_ok, t_text, t_out, t_resp>>

\* out = json.loads(raw)
TopicsParse ==
    /\ t_pc = "replied"
    /\ t_out' = JsonLoads(t_raw)
    /\ t_pc' = "parsed"
    /\ UNCHANGED <<notT, t_endpoint, t_key, t_body_ok, t_text, t_reply, t_raw, t_resp>>

\* the answer after the model call
TopicsRespond ==
    /\ t_pc = "parsed"
    /\ t_resp' = IF t_endpoint = "flask"
                 THEN FlaskTopicsAnswer(SanitizeText(t_text, TopicsMaxLen),
                                        t_reply.raises, t_out)
                 ELSE ServerlessTopicsAnswer(Strip(t_text), t_reply.raises, t_out)
    /\ t_pc' = "done"
    /\ UNCHANGED <<notT, t_endpoint, t_key, t_body_ok, t_text, t_reply, t_raw, t_out>>

TNext ==
    \/ FlaskCheckTopics
    \/ ServerlessCheckTopics
    \/ TopicsModelReply
    \/ TopicsParse
    \/ TopicsRespond

\* ------------------------------------------------------------------
\* The rate limit of authenticated requests as a state machine
\* ------------------------------------------------------------------

NoLimits == [key \in RateKeys |-> <<>>]

LIdle ==
    /\ l_clock = 0
    /\ l_limits = NoLimits
    /\ l_calls = NoLimits
    /\ l_alone = NoLimits
    /\ l_alone_calls = <<>>

LInit ==
    /\ l_clock = 1
    /\ l_limits = NoLimits
    /\ l_calls = NoLimits
    /\ l_alone = NoLimits
    /\ l_alone_calls = <<>>

\* time passes
ClockTick ==
    /\ l_clock > 0
    /\ l_clock < Len(ClockTimes)
    /\ l_clock' = l_clock + 1
    /\ UNCHANGED <<notL, l_limits, l_calls, l_alone, l_alone_calls>>

RateCall(at, ok) == [at |-> at, ok |-> ok]

\* require_auth, lines 73-74: check_rate_limit(user_id) for an
\* authenticated request; False is answered 429
RateLimitedRequest ==
    /\ l_clock > 0
    /\ \E key \in RateKeys :
          /\ Len(l_calls[key]) < (IF key = "u1" THEN MaxCalls ELSE MaxOtherCalls)
          /\ LET now == ClockTimes[l_clock]
                 out == CheckRateLimit(l_limits, key, now)
                 alone == CheckRateLimit(l_alone, key, now)
             IN  /\ l_limits' = out.limits
                 /\ l_calls' = [l_calls EXCEPT ![key] = Append(@, RateCall(now, out.ok))]
                 /\ IF key = "u1"
                    THEN /\ l_alone' = alone.limits
                         /\ l_alone_calls' = Append(l_alone_calls, RateCall(now, alone.ok))
                    ELSE UNCHANGED <<l_alone, l_alone_calls>>
    /\ UNCHANGED <<notL, l_clock>>

LNext == ClockTick \/ RateLimitedRequest

\* ------------------------------------------------------------------
\* Two concurrent submit-analysis requests as a state machine; the steps
\* of a request between its select and its insert touch no stored entry
\* ------------------------------------------------------------------

QIdle ==
    /\ q_endpoint = ""
    /\ q_unique = FALSE
    /\ q_follow = [i \in Submitters |-> FALSE]
    /\ q_rows = <<>>
    /\ q_pc = [i \in Submitters |-> "idle"]
    /\ q_next = [i \in Submitters |-> 0]
    /\ q_status = [i \in Submitters |-> 0]

QInit ==
    /\ q_endpoint \in {"flask", "serverless"}
    /\ q_unique \in BOOLEAN
    /\ q_follow \in [Submitters -> BOOLEAN]
    /\ q_rows \in DayStores
    /\ q_pc = [i \in Submitters |-> "received"]
    /\ q_next = [i \in Submitters |-> 0]
    /\ q_status = [i \in Submitters |-> 0]

\* server.py lines 280-282, api/analyze.py lines 246-249: the select of
\* the day's entries and next_number
ReadExisting ==
    \E i \in Submitters :
        /\ q_pc[i] = "received"
        /\ q_next' = [q_next EXCEPT ![i] = NextNumber(q_endpoint, q_rows)]
        /\ q_pc' = [q_pc EXCEPT ![i] = "read"]
        /\ UNCHANGED <<notQ, q_endpoint, q_unique, q_follow, q_rows, q_status>>

\* server.py lines 337-368, api/analyze.py lines 258-277: the insert of
\* the row; it raises when the table rejects the row, or for another
\* reason
InsertRow ==
    \E i \in Submitters : \E fails \in BOOLEAN :
        /\ q_pc[i] = "read"
        /\ LET row == NumberedRow(q_next[i], q_follow[i] /\ q_next[i] > 1)
               taken == \E k \in 1..Len(q_rows) : q_rows[k].entry_number = q_next[i]
           IN  IF q_unique /\ taken
               THEN /\ q_status' = [q_status EXCEPT
                                       ![i] = IF q_endpoint = "flask" THEN 400 ELSE 500]
                    /\ UNCHANGED q_rows
               ELSE IF fails
               THEN /\ q_status' = [q_status EXCEPT ![i] = 500]
                    /\ UNCHANGED q_rows
               ELSE /\ q_status' = [q_status EXCEPT ![i] = 200]
                    /\ q_rows' = Append(q_rows, row)
        /\ q_pc' = [q_pc EXCEPT ![i] = "done"]
        /\ UNCHANGED <<notQ, q_endpoint, q_unique, q_follow, q_next>>

QNext == ReadExisting \/ InsertRow

\* the components added after the submit-analysis endpoints are idle
XIdle ==
    /\ WIdle
    /\ w_model = {}
    /\ RIdle
    /\ CIdle
    /\ NIdle
    /\ UIdle
    /\ EIdle
    /\ TIdle
    /\ LIdle
    /\ QIdle

\* the earlier components are idle
BaseIdle ==
    /\ AIdle
    /\ a_model = {}
    /\ PIdle
    /\ GIdle
    /\ g_model = {}
    /\ SIdle

vars == <<avars, pvars, gvars, svars, xvars>>

\* analyze_with_gpt alone
AnalyzeInit ==
    /\ AInit
    /\ PIdle
    /\ GIdle
    /\ g_model = {}
    /\ SIdle
    /\ XIdle

SpecAnalyze == AnalyzeInit /\ [][ANext]_vars

\* the parse steps alone
ParseInit ==
    /\ AIdle
    /\ a_model = {}
    /\ PInit
    /\ GIdle
    /\ g_model = {}
    /\ SIdle
    /\ XIdle

SpecParse == ParseInit /\ [][PNext]_vars

\* check_missing_answer alone
GateInit ==
    /\ AIdle
    /\ a_model = {}
    /\ PIdle
    /\ GInit
    /\ SIdle
    /\ XIdle

SpecGate == GateInit /\ [][GNext]_vars

\* a submit-analysis request, with the calls it makes
ServerInit ==
    /\ AIdle
    /\ a_model = ServerReplies
    /\ PIdle
    /\ GIdle
    /\ g_model = ServerGateReplies
    /\ SInit
    /\ XIdle

ServerNext == SNext \/ ANext \/ GNext

SpecServer == ServerInit /\ [][ServerNext]_vars

\* generate_weekly_report alone
WeeklyInit ==
    /\ BaseIdle
    /\ WInit
    /\ RIdle
    /\ CIdle
    /\ NIdle
    /\ UIdle
    /\ EIdle
    /\ TIdle
    /\ LIdle
    /\ QIdle

SpecWeekly == WeeklyInit /\ [][WNext]_vars

\* a weekly-report request, with the call it makes
WeeklyServerInit ==
    /\ BaseIdle
    /\ WIdle
    /\ w_model = WeeklyServerReplies
    /\ RInit
    /\ CIdle
    /\ NIdle
    /\ UIdle
    /\ EIdle
    /\ TIdle
    /\ LIdle
    /\ QIdle

WeeklyServerNext == RNext \/ WNext

SpecWeeklyServer == WeeklyServerInit /\ [][WeeklyServerNext]_vars

\* encrypt and decrypt alone
CryptoInit ==
    /\ BaseIdle
    /\ WIdle
    /\ w_model = {}
    /\ RIdle
    /\ CInit
    /\ NIdle
    /\ UIdle
    /\ EIdle
    /\ TIdle
    /\ LIdle
    /\ QIdle

SpecCrypto == CryptoInit /\ [][CNext]_vars

\* clamp_int and clamp_float alone
ClampInit ==
    /\ BaseIdle
    /\ WIdle
    /\ w_model = {}
    /\ RIdle
    /\ CIdle
    /\ NInit
    /\ UIdle
    /\ EIdle
    /\ TIdle
    /\ LIdle
    /\ QIdle

SpecClamp == ClampInit /\ [][NNext]_vars

\* the authentication of a request alone
AuthInit ==
    /\ BaseIdle
    /\ WIdle
    /\ w_model = {}
    /\ RIdle
    /\ CIdle
    /\ NIdle
    /\ UInit
    /\ EIdle
    /\ TIdle
    /\ LIdle
    /\ QIdle

SpecAuth == AuthInit /\ [][UNext]_vars

\* a request on an entries endpoint
EntriesInit ==
    /\ BaseIdle
    /\ WIdle
    /\ w_model = {}
    /\ RIdle
    /\ CIdle
    /\ NIdle
    /\ UIdle
    /\ EInit
    /\ TIdle
    /\ LIdle
    /\ QIdle

SpecEntries == EntriesInit /\ [][ENext]_vars

\* a check-topics request
TopicsInit ==
    /\ BaseIdle
    /\ WIdle
    /\ w_model = {}
    /\ RIdle
    /\ CIdle
    /\ NIdle
    /\ UIdle
    /\ EIdle
    /\ TInit
    /\ LIdle
    /\ QIdle

SpecTopics == TopicsInit /\ [][TNext]_vars

\* the requests of two users passing the rate limit
RateInit ==
    /\ BaseIdle
    /\ WIdle
    /\ w_model = {}
    /\ RIdle
    /\ CIdle
    /\ NIdle
    /\ UIdle
    /\ EIdle
    /\ TIdle
    /\ LInit
    /\ QIdle

SpecRate == RateInit /\ [][LNext]_vars

\* two submit-analysis requests for one user and date
ConcurrentInit ==
    /\ BaseIdle
    /\ WIdle
    /\ w_model = {}
    /\ RIdle
    /\ CIdle
    /\ NIdle
    /\ UIdle
    /\ EIdle
    /\ TIdle
    /\ LIdle
    /\ QInit

SpecConcurrent == ConcurrentInit /\ [][QNext]_vars

Init ==
    \/ AnalyzeInit \/ ParseInit \/ GateInit \/ ServerInit \/ WeeklyInit \/ WeeklyServerInit
    \/ CryptoInit \/ ClampInit \/ AuthInit \/ EntriesInit \/ TopicsInit \/ RateInit
    \/ ConcurrentInit

Next ==
    \/ ANext \/ PNext \/ GNext \/ SNext \/ WNext \/ RNext \/ CNext \/ NNext \/ UNext \/ ENext
    \/ TNext \/ LNext \/ QNext

Spec == Init /\ [][Next]_vars

\* ------------------------------------------------------------------
\* Properties of analyze_with_gpt (SpecAnalyze)
\* ------------------------------------------------------------------

Count(seq, x) == Cardinality({i \in DOMAIN seq : seq[i] = x})

\* a credential is configured: api_key or OPENAI_KEY, stripped, is not empty
KeyConfigured ==
    Len(Strip(IF Len(a_api_key) > 0 THEN a_api_key ELSE a_env_key)) > 0

\* both the full-prompt attempt and the simplified retry raised
BothAttemptsFailed == a_fullFail # "" /\ a_simpleFail # ""

ReturnedDrivers == Get(a_result, K_likely_drivers, JNull)

\* C1: with a credential configured, the returned likely_drivers is
\* exactly ["Analysis pending"] if and only if both the full-prompt attempt
\* and the simplified retry failed.
C1_SentinelIffBothFailed ==
    (a_pc = "returned" /\ KeyConfigured)
        => ((ReturnedDrivers = SentinelDrivers) <=> BothAttemptsFailed)

\* C2: analyze_with_gpt never raises to its caller: a failure at any step
\* of FULL moves to SIMPLIFIED, a failure at any step of SIMPLIFIED moves
\* to FALLBACK, and what is returned is a mapping.
C2_NeverRaises ==
    /\ a_pc # "raised"
    /\ (a_fullFail # "" /\ a_simpleFail = "")
          => a_pc \in {"SIMPLIFIED_call", "SIMPLIFIED_parse", "SIMPLIFIED_normalize", "returned"}
    /\ a_simpleFail # "" => (a_fullFail # "" /\ a_pc \in {"FALLBACK", "returned"})
    /\ a_pc = "returned" => IsDict(a_result)

\* the fallback was returned after FULL raised in its normalize step and
\* SIMPLIFIED raised in its parse step
C2_Witness ==
    /\ a_pc = "returned"
    /\ a_fullFail = "normalize"
    /\ a_simpleFail = "parse"
    /\ a_result = FallbackResult(a_transcript, a_err_msg)

\* C3 as stated: a request with a credential makes exactly one call with
\* the full prompt.
C3_ExactlyOneFullCall ==
    (a_pc = "returned" /\ KeyConfigured) => Count(a_calls, "full") = 1

\* C3: a request makes at most two model calls, at most one with the
\* full prompt (exactly one once the client was created) and at most one
\* with the simplified prompt, the latter only after the full attempt
\* failed and never after it succeeded; without a credential no call is
\* made.
C3_CallBudget ==
    /\ a_calls \in {<<>>, <<"full">>, <<"simplified">>, <<"full", "simplified">>}
    /\ (a_reply1 # NoReply /\ a_reply1.called) => Count(a_calls, "full") = 1
    /\ Count(a_calls, "simplified") > 0 => a_fullFail # ""
    /\ (a_pc = "returned" /\ a_fullFail = "") => Count(a_calls, "simplified") = 0
    /\ ~KeyConfigured => a_calls = <<>>

\* both calls were made, and the request returned
C3_Witness ==
    /\ a_pc = "returned"
    /\ a_calls = <<"full", "simplified">>
    /\ a_fullFail # ""

\* the summary every fallback result is to carry
FixedFallbackSummary ==
    IF Len(a_transcript) = 0 THEN NoReflectionProvided
    ELSE Prefix(a_transcript, FallbackSummaryLen)

\* C4: every fallback result, on a missing credential as well as after
\* both attempts failed, has the first 200 characters of the transcript
\* (or "No reflection provided.") as reflection_summary, the sentinel
\* drivers, the two dashes, and an _error; after both attempts failed the
\* _error is that of the FULL attempt.
C4_FallbackIsFixedRecord ==
    (a_pc = "returned" /\ (~KeyConfigured \/ BothAttemptsFailed))
        => /\ Get(a_result, K_reflection_summary, JNull) = JStr(FixedFallbackSummary)
           /\ ReturnedDrivers = SentinelDrivers
           /\ Get(a_result, K_predicted_impact, JNull) = JStr(Dash)
           /\ Get(a_result, K_experiment_for_tomorrow, JNull) = JStr(Dash)
           /\ HasKey(a_result, K_error)
           /\ BothAttemptsFailed
                => Get(a_result, K_error, JNull) = JStr(a_err_msg)

\* C5: the returned result has the key _error exactly on the fallback
\* path (no credential, or both attempts failed).
C5_ErrorOnlyOnFallback ==
    a_pc = "returned"
        => (HasKey(a_result, K_error) <=> (~KeyConfigured \/ BothAttemptsFailed))

\* every required key with a string for the three string fields and a
\* list of strings for likely_drivers
WellTyped(result) ==
    /\ IsDict(result)
    /\ \A key \in {K_reflection_summary, K_predicted_impact, K_experiment_for_tomorrow} :
          HasKey(result, key) /\ IsStr(Get(result, key, JNull))
    /\ HasKey(result, K_likely_drivers)
    /\ IsList(Get(result, K_likely_drivers, JNull))
    /\ \A i \in 1..Len(Get(result, K_likely_drivers, JList(<<>>)).v) :
          IsStr(Get(result, K_likely_drivers, JNull).v[i])

\* C7: for any parsed mapping the normalize step of FULL does not raise,
\* and its result has every required key with correctly typed values.
C7_NormalizeTotal ==
    /\ (a_pc = "SIMPLIFIED_call" /\ a_fullFail = "normalize") => ~IsDict(a_data)
    /\ (a_pc = "returned" /\ a_reply1 # NoReply /\ a_fullFail = "") => WellTyped(a_result)

\* C8: when the retry has acted on a response text, its outcome equals
\* the outcome of the FULL parse and normalize steps on that same text.
C8_SimplifiedAsFull ==
    (a_pc = "returned" /\ a_reply2 # NoReply /\ ~a_reply2.raises)
        => IF a_simpleFail = ""
           THEN FullAttempt(a_reply2) = Return(a_result)
           ELSE ~FullAttempt(a_reply2).ok

\* ------------------------------------------------------------------
\* Properties of the parse steps (SpecParse)
\* ------------------------------------------------------------------

\* C9: the parse steps applied to a wrapped well-formed JSON object,
\* with or without trailing commas, yield a mapping equal to the object.
C9_RoundTrip ==
    p_pc = "parsed" => (p_out.ok /\ p_out.val = p_doc)

\* ------------------------------------------------------------------
\* Properties of check_missing_answer (SpecGate)
\* ------------------------------------------------------------------

\* C10: for every transcript shorter than 10 characters,
\* check_missing_answer returns no clarification and makes no model call,
\* with or without a credential and whatever the anchors.
C10_ShortTranscriptNoClarification ==
    (Len(g_transcript) < 10 /\ g_pc # "start")
        => /\ g_pc = "returned"
           /\ g_result = NoneVal
           /\ g_calls = <<>>
           /\ g_reply = NoReply

\* a transcript of 9 characters without a keyword, a credential configured
C10_Witness ==
    /\ g_pc = "returned"
    /\ g_transcript = T_slept_bad
    /\ Len(g_key) > 0
    /\ g_result = NoneVal

\* none of the eight keywords occurs in the transcript, in any letter case
NoEnergyKeyword ==
    \A w \in {<<"e", "n", "e", "r", "g", "y">>, <<"t", "i", "r", "e", "d">>,
               <<"d", "r", "a", "i", "n", "e", "d">>, <<"f", "o", "c", "u", "s", "e", "d">>,
               <<"f", "o", "c", "u", "s">>,
               <<"p", "r", "o", "d", "u", "c", "t", "i", "v", "e">>,
               <<"w", "o", "r", "k">>, <<"d", "e", "e", "p", " ", "w", "o", "r", "k">>} :
        ~Contains(Lower(g_transcript), w)

\* the fixed question, returned without a model call
AsksFixedQuestion ==
    /\ g_pc = "returned"
    /\ g_result = Some(GateQuestion)
    /\ g_calls = <<>>
    /\ g_reply = NoReply

\* C11 as stated: for every transcript whose length is in [10, 80) and
\* that holds none of the keywords, check_missing_answer returns the fixed
\* question without a model call.
C11_LengthAsGiven ==
    (g_pc # "start" /\ Len(g_transcript) \in 10..79 /\ NoEnergyKeyword)
        => AsksFixedQuestion

\* C11: for every transcript whose length after trimming the surrounding
\* whitespace is in [10, 80) and that holds none of the keywords,
\* check_missing_answer returns exactly "How was your energy and focus
\* today?", with or without a credential, and makes no model call.
C11_ShortNoKeywordAsksQuestion ==
    (g_pc # "start" /\ Len(Strip(g_transcript)) \in 10..79 /\ NoEnergyKeyword)
        => AsksFixedQuestion

\* a padded transcript of 11 characters between its blanks, a credential
\* configured: the fixed question came back
C11_Witness ==
    /\ g_transcript = T_padded_badly
    /\ Len(g_key) > 0
    /\ AsksFixedQuestion

\* the reply is a clarification: not empty, not NONE, ending in "?"
ReplyIsQuestion ==
    /\ g_reply # NoReply
    /\ g_reply.called
    /\ ~g_reply.raises
    /\ Len(Strip(g_reply.content)) > 0
    /\ Upper(Strip(g_reply.content)) # <<"N", "O", "N", "E">>
    /\ Strip(g_reply.content)[Len(Strip(g_reply.content))] = "?"

\* C12: check_missing_answer never raises; outside the short-input
\* keyword branch it returns a clarification exactly when a model is
\* configured and its reply is non-empty, not NONE in any letter case and
\* ends with a question mark, and that clarification is the trimmed
\* reply; every value it returns is nothing or a string ending in "?".
C12_GateNeverBlocks ==
    /\ g_pc \in {"idle", "start", "call", "returned"}
    /\ (g_pc = "returned" /\ g_result.some)
          => g_result.val[Len(g_result.val)] = "?"
    /\ (g_pc = "returned"
           /\ ~(Len(Strip(g_transcript)) \in 10..79 /\ NoEnergyKeyword))
          => /\ g_result.some <=> (Len(g_key) > 0 /\ ReplyIsQuestion)
             /\ g_result.some => g_result.val = Strip(g_reply.content)

\* the model was called and raised, and the gate returned nothing
C12_Witness ==
    /\ g_pc = "returned"
    /\ g_reply # NoReply
    /\ g_reply.called /\ g_reply.raises
    /\ g_result = NoneVal
    /\ Len(g_calls) = 1

\* ------------------------------------------------------------------
\* Properties of generate_weekly_report (SpecWeekly)
\* ------------------------------------------------------------------

WeeklyKeyConfigured == Len(EffectiveKey(w_api_key, w_env_key)) > 0

\* the call returned from line 153
WeeklySucceeded == w_pc = "returned" /\ WeeklyKeyConfigured /\ w_fail = ""

\* the call returned from line 41 or from the except block
WeeklyFailed == w_pc = "returned" /\ (~WeeklyKeyConfigured \/ w_fail # "")

\* C14: in every successful weekly result the metrics field holds exactly
\* the values computed from the entries (the averages, the total and
\* entries_count = the number of entries passed in), for every model
\* response, one that carries a metrics object of its own included.
C14_MetricsAreComputed ==
    WeeklySucceeded =>
        /\ HasKey(w_result, W_metrics)
        /\ Get(w_result, W_metrics, JNull) = WeeklyMetrics(w_entries)

\* C15: every failure outcome of generate_weekly_report (no credential,
\* call raised, empty response, unparseable response) is a result with
\* an error field and a metrics field holding the values computed from
\* the entries.
C15_FailureCarriesMetrics ==
    WeeklyFailed =>
        /\ HasKey(w_result, W_error)
        /\ HasKey(w_result, W_metrics)
        /\ Len(w_entries) > 0 => Get(w_result, W_metrics, JNull) = WeeklyMetrics(w_entries)

\* ------------------------------------------------------------------
\* Properties of the weekly-report endpoints (SpecWeeklyServer)
\* ------------------------------------------------------------------

\* the distinct dates of all the rows the requesting user has stored
StoredDates == Cardinality(UniqueDates(RowsOf(r_rows, r_req.user_id)))

\* an authenticated request of a user with fewer than 7 distinct dates
FewDates == r_req.user_id # "" /\ StoredDates < WeeklyNeeded

\* the demo request of the Flask route (server.py lines 377-405)
FlaskDemo == r_endpoint = "flask" /\ r_req.body = "demo"

\* the request was refused before the entries were counted: rate limit,
\* body, configuration or a failed select
RefusedEarly ==
    /\ r_resp.kind = "error"
    /\ r_resp.status \in (IF r_endpoint = "flask" THEN {429, 500, 503} ELSE {400, 503, 0})

C6_SentinelAnswers503NoWrite ==
    (a_pc = "returned" /\ ReturnedDrivers = SentinelDrivers)
        => /\ s_pc \in {"analyzing", "done"}
           /\ s_pc = "done" => s_resp.status = 503
           /\ s_writes = <<>>
           /\ s_entries = s_before

\* a final follow-up on a day that has an entry, on the Flask route:
\* the analysis of the combined transcript gave the sentinel
C6_Witness ==
    /\ s_endpoint = "flask"
    /\ s_pc = "done"
    /\ s_req.is_follow_up /\ s_req.is_last_reflection
    /\ Len(s_before) > 0
    /\ a_pc = "returned"
    /\ ReturnedDrivers = SentinelDrivers
    /\ s_resp.status = 503

\* the request reached the step that persists the analysis
ReachedStore == s_pc = "done" /\ s_local.result # JNull

\* C16: when an entry for the same (user, date) already exists and the
\* request did not ask for overwrite, the submission is refused (an
\* answer other than success when it reached the persist step) and the
\* store is left unchanged: no row is inserted or updated.
C16_ExistingEntryRefused ==
    (Len(s_before) > 0 /\ ~s_req.overwrite) =>
        /\ s_writes = <<>>
        /\ s_entries = s_before
        /\ ReachedStore => s_resp.status # 200

\* ------------------------------------------------------------------
\* Properties of encrypt and decrypt (SpecCrypto)
\* ------------------------------------------------------------------

\* C17: for every text x, decrypt(encrypt(x)) = x with or without a
\* configured key (neither call raises); without a key encrypt and
\* decrypt return their argument; the empty string and None are
\* returned unchanged in every configuration.
C17_RoundTrip ==
    /\ c_pc # "raised"
    /\ (c_op = "roundtrip" /\ c_pc = "decrypted") => c_dec = c_x
    /\ (c_pc \in {"encrypted", "decrypted"} /\ (c_key = "none" \/ ~c_x.some \/ c_x.val = <<>>))
          => /\ c_op = "roundtrip" => c_enc = c_x
             /\ c_pc = "decrypted" => c_dec = c_x

\* ------------------------------------------------------------------
\* Properties of clamp_int and clamp_float (SpecClamp)
\* ------------------------------------------------------------------

\* the values that are not a number: null, a list, NaN, and the strings
\* that spell no number
NotNumberStrings == {<<"a", "b", "c">>, <<"n", "a", "n">>, <<"N", "a", "N">>, <<>>, <<"+">>}

ValueIsNotNumber ==
    \/ n_value \in {JNull, JFloat("nan")}
    \/ n_value.t = "list"
    \/ n_value.t = "str" /\ n_value.v \in NotNumberStrings

\* the integer strings of the inputs with their values
IntegerStrings == {<<<<"5">>, 5>>, <<<<"-", "3">>, -3>>, <<<<" ", "4", " ">>, 4>>, <<<<"9", "9">>, 99>>}

\* the value, in tenths, of an input that is a finite number for both
\* functions; <<>> when it is none
FiniteValue ==
    IF n_value.t = "num" THEN <<10 * n_value.v>>
    ELSE IF n_value.t = "tenths"
    THEN <<IF n_fn = "clamp_int" THEN 10 * Truncate(n_value.v) ELSE n_value.v>>
    ELSE IF n_value.t = "str" /\ \E p \in IntegerStrings : p[1] = n_value.v
    THEN <<10 * (CHOOSE p \in IntegerStrings : p[1] = n_value.v)[2]>>
    ELSE <<>>

Clamped(low, high, t) == IF t < low THEN low ELSE IF t > high THEN high ELSE t

ClampDefault == IF n_range.default # Null THEN n_range.default[1] ELSE n_range.low

\* C18: clamp_int and clamp_float do not raise, for any input value;
\* they return the default when the value is not a number, and
\* otherwise a value between low and high equal to the input clamped to
\* the range (an infinity clamped to the bound on its side).
C18_ClampTotal ==
    /\ n_pc # "raised"
    /\ n_pc = "returned" =>
          /\ IsFinite(n_out)
          /\ ValueIsNotNumber => Tenths(n_out) = Tenths(ClampDefault)
          /\ FiniteValue # <<>> =>
                Tenths(n_out) = Clamped(Tenths(n_range.low), Tenths(n_range.high), FiniteValue[1])
          /\ n_value = JFloat("inf") => Tenths(n_out) = Tenths(n_range.high)
          /\ n_value = JFloat("-inf") => Tenths(n_out) = Tenths(n_range.low)

\* ------------------------------------------------------------------
\* Properties of the authentication (SpecAuth)
\* ------------------------------------------------------------------

\* the header carries a Bearer token signed with the configured secret,
\* unexpired, with audience "authenticated"
VerifiedToken ==
    /\ u_secret
    /\ u_header.scheme = "Bearer "
    /\ u_header.token.wellformed
    /\ u_header.token.signer = "secret"
    /\ ~u_header.token.expired
    /\ u_header.token.aud = "authenticated"

\* C19: in every configuration, get_user_id returns a user id only for
\* a Bearer token whose signature verifies against the configured
\* secret, that is unexpired and has audience "authenticated"; any
\* other token yields None and the request is answered 401.
C19_OnlyVerifiedTokens ==
    /\ (u_pc # "received" /\ u_user # "") => VerifiedToken
    /\ (u_pc = "done" /\ ~VerifiedToken) => u_status = 401

\* ------------------------------------------------------------------
\* Properties of the entries endpoints (SpecEntries)
\* ------------------------------------------------------------------

\* every row of the answer is an entry of the requesting user
AnswersOwnEntries ==
    \A k \in 1..Len(e_resp.data) :
        /\ e_user # ""
        /\ \E i \in 1..Len(e_rows) : e_rows[i].id = e_resp.data[k].id /\ e_rows[i].user_id = e_user

\* the answer does not depend on what the other user has stored
SameAnswerOnOther == e_resp = e_resp_other

\* a get request, not refused for its configuration or rate, whose id
\* is the id of an entry of the other user, and whose select did not fail
AsksForOthersEntry ==
    /\ e_endpoint \in {"flask_get", "serverless_get"}
    /\ e_user # ""
    /\ e_env.supabase /\ ~e_env.limited
    /\ e_outcome # "error"
    /\ \E i \in 1..Len(e_rows) : e_rows[i].id = e_id /\ e_rows[i].user_id # e_user

\* C20: fetch-entry and list-entries return data of an entry only to a
\* request authenticated as that entry's user_id; the responses a user
\* receives are identical whatever entries the other user has stored;
\* and a request for an id owned by the other user yields not-found
\* (404) with no entry content.
C20_EntryOwnership ==
    e_pc = "done" =>
        /\ AnswersOwnEntries
        /\ SameAnswerOnOther
        /\ AsksForOthersEntry => e_resp.status = 404 /\ e_resp.data = <<>>

\* ------------------------------------------------------------------
\* Properties of the check-topics endpoints (under SpecTopics)
\* ------------------------------------------------------------------

\* the text as the endpoint measures it
TopicsText ==
    IF t_endpoint = "flask" THEN SanitizeText(t_text, TopicsMaxLen) ELSE Strip(t_text)

NoCredentialLongText ==
    /\ t_pc = "done"
    /\ t_body_ok
    /\ ~t_key
    /\ Len(TopicsText) >= TopicsMinLen

\* C21: without a model credential and with a text of at least 5
\* characters, either endpoint makes no model call and answers
\* _fallback_check_topics(text)
C21_NoKeyUsesFallback ==
    NoCredentialLongText =>
        /\ t_resp.calls = 0
        /\ t_resp.missing = FallbackCheckTopics(TopicsText)

\* ------------------------------------------------------------------
\* Properties of the normalisation in analyze_with_gpt (SpecAnalyze)
\* ------------------------------------------------------------------

\* the call returned what the normalisation made of a parsed response:
\* a_data is that response
ReturnedFromReply ==
    /\ a_pc = "returned"
    /\ a_reply1 # NoReply
    /\ ~BothAttemptsFailed

ParsedCore == Get(a_data, K_core_bottleneck, JStr(<<>>))

ParsedSummary == Get(a_data, K_reflection_summary, JStr(<<>>))

ParsedDrivers == Get(a_data, K_likely_drivers, JList(<<>>))

ReturnedSummary == Get(a_result, K_reflection_summary, JNull)

\* C22: whenever the parsed response has a non-empty core_bottleneck, the
\* returned result has no core_bottleneck key.
C22_CoreBottleneckKeyGone ==
    (ReturnedFromReply /\ Truthy(ParsedCore)) => ~HasKey(a_result, K_core_bottleneck)

\* the text a core_bottleneck contributes to the summary: a string as it
\* is; a mapping as its "k: v" lines when the FULL state returned and as
\* str(mapping) when the retry returned; anything else as its str()
CoreText ==
    IF IsDict(ParsedCore) /\ a_fullFail = "" THEN RenderDict(ParsedCore, <<NL>>)
    ELSE PyStr(ParsedCore)

C24_DriversRendered ==
    (ReturnedFromReply /\ IsList(ParsedDrivers))
        => ReturnedDrivers =
              JList([i \in 1..Len(ParsedDrivers.v) |-> RenderDriver(ParsedDrivers.v[i])])

\* ------------------------------------------------------------------
\* Properties of the weekly aggregates (SpecWeekly)
\* ------------------------------------------------------------------

RECURSIVE SumOver(_, _)
\* f[1] + ... + f[n]
SumOver(f, n) == IF n = 0 THEN 0 ELSE f[n] + SumOver(f, n - 1)

\* what each entry contributes to the sum of a field, a missing, null or
\* zero value counting as `missing`
Contributions(name, missing) ==
    [i \in 1..Len(w_entries) |->
        IF w_entries[i][name] = Null \/ w_entries[i][name][1] = 0 THEN missing
        ELSE w_entries[i][name][1]]

FieldSum(name, missing) == SumOver(Contributions(name, missing), Len(w_entries))

\* t tenths is total / n rounded to one decimal (total in tenths)
IsRounded(t, total, n) ==
    /\ 2 * (t * n - total) <= n
    /\ 2 * (total - t * n) <= n

\* lines 44-48 have run
AggregatesComputed == w_pc \in {"call", "parse", "normalize", "returned"} /\ w_metrics # JNull

Aggregate(name) == Get(w_metrics, name, JNull).v

\* C25 as stated: the three averages are the sums over the entries
\* divided by n and rounded to one decimal, total_deep_work is the sum of
\* deep_work_blocks, a missing or null field contributing 0 to every sum.
C25_MissingCountsAsZero ==
    AggregatesComputed =>
        /\ IsRounded(Aggregate(W_avg_sleep), FieldSum("sleep_hours", 0), Len(w_entries))
        /\ IsRounded(Aggregate(W_avg_sleep_quality), 10 * FieldSum("sleep_quality", 0),
                     Len(w_entries))
        /\ IsRounded(Aggregate(W_avg_energy), 10 * FieldSum("energy", 0), Len(w_entries))
        /\ Aggregate(W_total_deep_work) = FieldSum("deep_work_blocks", 0)

\* C25: as above, but a missing, null or zero sleep_quality or energy
\* contributes 3 to its sum; sleep_hours and deep_work_blocks contribute 0.
C25_MissingCountsAsDefault ==
    AggregatesComputed =>
        /\ IsRounded(Aggregate(W_avg_sleep), FieldSum("sleep_hours", 0), Len(w_entries))
        /\ IsRounded(Aggregate(W_avg_sleep_quality), 10 * FieldSum("sleep_quality", 3),
                     Len(w_entries))
        /\ IsRounded(Aggregate(W_avg_energy), 10 * FieldSum("energy", 3), Len(w_entries))
        /\ Aggregate(W_total_deep_work) = FieldSum("deep_work_blocks", 0)
        /\ w_entries = DemoEntries => Aggregate(W_avg_sleep) = 69

\* the aggregates of a list with entries whose anchors are null
C25_Witness ==
    /\ AggregatesComputed
    /\ Len(w_entries) > 1
    /\ \E i \in 1..Len(w_entries) : w_entries[i].sleep_quality = Null
    /\ \E i \in 1..Len(w_entries) : w_entries[i].sleep_quality # Null
    /\ FieldSum("sleep_quality", 3) > FieldSum("sleep_quality", 0)

\* ------------------------------------------------------------------
\* Properties of the rate limit (SpecRate)
\* ------------------------------------------------------------------

\* the calls for key that were accepted at a time in [from, from + 60)
AcceptedInWindow(key, from) ==
    {i \in 1..Len(l_calls[key]) :
        /\ l_calls[key][i].ok
        /\ from <= l_calls[key][i].at
        /\ l_calls[key][i].at < from + 60}

\* the stamps of key that are equal to at
StampsAt(key, at) == {i \in 1..Len(l_limits[key]) : l_limits[key][i] = at}

\* C26: for every key at most 30 calls were accepted within any
\* 60-second window (a window that holds accepted calls can be moved to
\* start at the first of them, so the windows starting at a clock reading
\* are enough); a rejected call records no timestamp: the stamps of a key
\* at a time are never more than its accepted calls at that time; and
\* the calls of u1 end the same way whether or not u2 makes calls.
C26_RateLimitBound ==
    /\ \A key \in RateKeys : \A c \in 1..Len(ClockTimes) :
          Cardinality(AcceptedInWindow(key, ClockTimes[c])) <= 30
    /\ \A key \in RateKeys : \A c \in 1..Len(ClockTimes) :
          Cardinality(StampsAt(key, ClockTimes[c]))
              <= Cardinality({i \in AcceptedInWindow(key, ClockTimes[c]) :
                                 l_calls[key][i].at = ClockTimes[c]})
    /\ l_alone_calls = l_calls["u1"]

\* u1 was refused with 30 calls in the window and accepted again once
\* they were 60 seconds old, and u2 has made a call
C26_Witness ==
    /\ \E i, j \in 1..Len(l_calls["u1"]) :
          /\ i < j
          /\ ~l_calls["u1"][i].ok
          /\ l_calls["u1"][j].ok
          /\ Cardinality(AcceptedInWindow("u1", l_calls["u1"][i].at - 59)) = 30
    /\ Len(l_calls["u2"]) > 0

\* ------------------------------------------------------------------
\* Properties of follow-up submissions (SpecServer)
\* ------------------------------------------------------------------

\* the request added a row to the day's entries
InsertedRow == s_pc = "done" /\ Len(s_entries) > Len(s_before)

NewRow == s_entries[Len(s_entries)]

\* C28: for every follow-up submission on a date that already has
\* entries, the four anchors stored on the new row equal those of the
\* day's first entry, whatever the request carried, a 0 included.
C28_FollowUpKeepsAnchors ==
    (InsertedRow /\ s_req.is_follow_up /\ Len(s_before) > 0)
        => NewRow.anchors = s_before[1].anchors

FinalFollowUp == s_req.is_follow_up /\ s_req.is_last_reflection /\ Len(s_before) > 0

\* C29: a final follow-up is all-or-nothing over the day's entries: on
\* success every entry of the day, the new row included, carries the same
\* four analysis columns and none holds the placeholder; on an error no
\* entry of the day was inserted or changed.
C29_FinalFollowUpAllOrNothing ==
    (s_pc = "done" /\ FinalFollowUp)
        => IF s_resp.status = 200
           THEN /\ \A i \in 1..Len(s_entries) : s_entries[i].analysis = NewRow.analysis
                /\ NewRow.analysis.likely_drivers # SentinelDrivers
           ELSE /\ s_entries = s_before
                /\ s_writes = <<>>

\* ------------------------------------------------------------------
\* Properties of the entries passed to generate_weekly_report
\* (SpecWeeklyServer)
\* ------------------------------------------------------------------

\* C30: whenever a weekly-report endpoint invokes generate_weekly_report,
\* the list it passes is not empty, has at most 14 entries and spans at
\* least 7 distinct dates, also for users with several entries per day.
C30_PassedEntriesSpanAWeek ==
    \A i \in 1..Len(r_passed) :
        /\ Len(r_passed[i]) >= 1
        /\ Len(r_passed[i]) <= 14
        /\ Cardinality({r_passed[i][k].date : k \in 1..Len(r_passed[i])} \ {NoDate}) >= 7

\* ------------------------------------------------------------------
\* Properties of the entry numbering (SpecConcurrent)
\* ------------------------------------------------------------------

\* C27: after any interleaving of submit-analysis requests for one user
\* and date, the stored entries of the day have pairwise distinct
\* entry_number values forming 1..k without gaps, and the entry numbered
\* 1 is never marked is_follow_up.
C27_EntryNumbering ==
    /\ \A i, j \in 1..Len(q_rows) : q_rows[i].entry_number = q_rows[j].entry_number => i = j
    /\ {q_rows[i].entry_number : i \in 1..Len(q_rows)} = 1..Len(q_rows)
    /\ \A i \in 1..Len(q_rows) : q_rows[i].entry_number = 1 => ~q_rows[i].is_follow_up

====
